---- MODULE Spec2Model ----
(***************************************************************************)
(* Model of the AGI protocol engine of package agi (src/parsers.go):       *)
(* the environment parser parseEnv, the reply parser parseResponse and the *)
(* command dispatcher sendMsg of a Session, over a bufio.ReadWriter whose  *)
(* input side is a byte stream sent by the peer and whose output side is a *)
(* buffered writer.                                                        *)
(*                                                                         *)
(* Text is modelled as sequences of one-character strings, indexed from 0  *)
(* as in Go through IndexByte and Slice.  Integers have the width of a     *)
(* Go int on a 32-bit build (strconv.IntSize = 32).                        *)
(***************************************************************************)
EXTENDS Integers, Sequences, FiniteSets, TLC

VARIABLES
    rbuf,   \* a.buf.Reader: bytes already held in the bufio buffer (Buffered() = Len(rbuf))
    wire,   \* bytes the peer sends that have not been fetched into the bufio buffer yet
    werr,   \* a.buf.Writer: the sticky error of the bufio writer (Nil when healthy)
    out,    \* bytes the last call handed to the transport
    r,      \* Reply returned by the last call
    err,    \* error returned by the last call
    op,     \* the last call and the path it took
    reads,  \* the ReadBytes results of the last call, in order
    Env,    \* a.Env: the map of environment variables, or the nil map
    cmd,    \* the command string handed to the last sendMsg call
    trace,  \* the calls the last call made on a.buf, in order
    hist,   \* history of the session: the bytes the peer sent and counts of the calls made
    other,  \* a second Session made by New(), bound to a transport of its own
    peer,   \* the peer of the session: the commands it has received and the lines it has sent
    srv     \* the FastAGI server of the example: main, its acceptors and its handlers

vars == <<rbuf, wire, werr, out, r, err, op, reads, Env, cmd, trace, hist, other, peer, srv>>

----------------------------------------------------------------------------
(* Bounds of the model *)

\* Number of complete lines the peer sends in a run.
MaxLines == 2

----------------------------------------------------------------------------
(* Bytes and text *)

NL == "\n"
CR == "\r"
SP == " "
EQ == "="

Digits == <<"0", "1", "2", "3", "4", "5", "6", "7", "8", "9">>

IsDigit(c) == \E d \in 1..10 : Digits[d] = c

DigitVal(c) == (CHOOSE d \in 1..10 : Digits[d] = c) - 1

DigitChar(d) == Digits[d + 1]

RECURSIVE IndexFrom(_, _, _)
\* Index (from 0) of the first c in s at or after position i (from 1), -1 when absent.
IndexFrom(s, c, i) ==
    IF i > Len(s) THEN -1
    ELSE IF s[i] = c THEN i - 1
    ELSE IndexFrom(s, c, i + 1)

\* bytes.IndexByte: index (from 0) of the first c in s, -1 when absent.
IndexByte(s, c) == IndexFrom(s, c, 1)

\* Go slice expression s[lo:hi], indices from 0.
Slice(s, lo, hi) == SubSeq(s, lo + 1, hi)

HasPrefix(s, p) == Len(s) >= Len(p) /\ SubSeq(s, 1, Len(p)) = p

T200 == <<"2", "0", "0">>
T510 == <<"5", "1", "0">>
T511 == <<"5", "1", "1">>
T520 == <<"5", "2", "0">>
T520Invalid == <<"5", "2", "0", "-", "I", "n", "v", "a", "l", "i", "d">>
HANGUP == <<"H", "A", "N", "G", "U", "P">>
Result200 == <<"2", "0", "0", " ", "r", "e", "s", "u", "l", "t">>

----------------------------------------------------------------------------
(* Integers and strconv.Atoi *)

MaxInt == 2147483647
MinInt == -2147483647 - 1

RECURSIVE NegDigits(_)
\* Decimal digits of -m for m <= 0 (computed on the negative side so that MinInt fits).
NegDigits(m) ==
    LET d == (10 - (m % 10)) % 10
    IN IF m > -10 THEN <<DigitChar(-m)>>
       ELSE NegDigits((m + d) \div 10) \o <<DigitChar(d)>>

\* strconv.Itoa: the decimal text of n.
Itoa(n) == IF n < 0 THEN <<"-">> \o NegDigits(n) ELSE NegDigits(-n)

RECURSIVE NegAcc(_, _, _)
\* Accumulates the digits ds[i..] onto acc <= 0 as a negative magnitude.
NegAcc(ds, i, acc) ==
    IF i > Len(ds) THEN [v |-> acc, ovf |-> FALSE]
    ELSE LET d == DigitVal(ds[i])
         IN IF acc < (MinInt + d + 9) \div 10
            THEN [v |-> 0, ovf |-> TRUE]
            ELSE NegAcc(ds, i + 1, acc * 10 - d)

\* Mutant of Atoi: the sign of the token is dropped.
AtoiNoSign(s) ==
    LET signed == s # <<>> /\ s[1] \in {"+", "-"}
        body   == IF signed THEN Tail(s) ELSE s
    IN IF body = <<>> \/ \E i \in 1..Len(body) : ~IsDigit(body[i])
       THEN [val |-> 0, err |-> "ErrSyntax"]
       ELSE LET a == NegAcc(body, 1, 0)
            IN IF a.ovf \/ a.v = MinInt
               THEN [val |-> MaxInt, err |-> "ErrRange"]
               ELSE [val |-> -a.v, err |-> "nil"]

\* strconv.Atoi(s): value and error ("nil", "ErrSyntax" or "ErrRange").
\* A syntax error returns 0, a range error the nearest representable int.
Atoi(s) ==
    LET signed == s # <<>> /\ s[1] \in {"+", "-"}
        neg    == s # <<>> /\ s[1] = "-"
        body   == IF signed THEN Tail(s) ELSE s
    IN IF body = <<>> \/ \E i \in 1..Len(body) : ~IsDigit(body[i])
       THEN [val |-> 0, err |-> "ErrSyntax"]
       ELSE LET a == NegAcc(body, 1, 0)
            IN IF a.ovf \/ (~neg /\ a.v = MinInt)
               THEN [val |-> IF neg THEN MinInt ELSE MaxInt, err |-> "ErrRange"]
               ELSE [val |-> IF neg THEN a.v ELSE -a.v, err |-> "nil"]

----------------------------------------------------------------------------
(* Reply and error values *)

\* Reply{}: the zero Reply.
EmptyReply == [Res |-> 0, Dat |-> <<>>]

\* The nil error.
Nil == [kind |-> "nil", text |-> <<>>, cause |-> "none"]

ErrHangupResponse == [kind |-> "ErrHangupResponse", text |-> HANGUP, cause |-> "none"]

Err510Response ==
    [kind |-> "Err510Response",
     text |-> <<"i", "n", "v", "a", "l", "i", "d", " ", "o", "r", " ", "u", "n", "k",
                "n", "o", "w", "n", " ", "c", "o", "m", "m", "a", "n", "d">>,
     cause |-> "none"]

Err511Response ==
    [kind |-> "Err511Response",
     text |-> <<"c", "o", "m", "m", "a", "n", "d", " ", "n", "o", "t", " ", "p", "e",
                "r", "m", "i", "t", "t", "e", "d", " ", "o", "n", " ", "a", " ", "d",
                "e", "a", "d", " ", "c", "h", "a", "n", "n", "e", "l">>,
     cause |-> "none"]

Err520Response ==
    [kind |-> "Err520Response",
     text |-> <<"i", "n", "v", "a", "l", "i", "d", " ", "c", "o", "m", "m", "a", "n",
                "d", " ", "s", "y", "n", "t", "a", "x">>,
     cause |-> "none"]

\* type ErrMalformed200Response string
ErrMalformed200Response(s) == [kind |-> "ErrMalformed200Response", text |-> s, cause |-> "none"]

\* type ErrMalformedAGIResponse string
ErrMalformedAGIResponse(s) == [kind |-> "ErrMalformedAGIResponse", text |-> s, cause |-> "none"]

\* type ErrFailedToParse200Response struct{ err error }, wrapping the
\* *strconv.NumError of Atoi on token num with cause ErrSyntax or ErrRange.
ErrFailedToParse200Response(num, cause) ==
    [kind |-> "ErrFailedToParse200Response", text |-> num, cause |-> cause]

\* Errors of the transport's Read.
EOF == [kind |-> "io.EOF", text |-> <<"E", "O", "F">>, cause |-> "none"]
ErrClosed == [kind |-> "net.ErrClosed", text |-> <<"c", "l", "o", "s", "e", "d">>, cause |-> "none"]

ReadErrors == {EOF, ErrClosed}

\* Error of the transport's Write.
ErrBrokenPipe == [kind |-> "syscall.EPIPE", text |-> <<"b", "r", "o", "k", "e", "n">>, cause |-> "none"]

\* The Error() method of the error values above.
Error(e) ==
    CASE e.kind = "ErrMalformed200Response" ->
            <<"m", "a", "l", "f", "o", "r", "m", "e", "d", " ", "2", "0", "0", " ",
              "r", "e", "s", "p", "o", "n", "s", "e", ":", " ">> \o e.text
      [] e.kind = "ErrMalformedAGIResponse" ->
            <<"m", "a", "l", "f", "o", "r", "m", "e", "d", " ", "o", "r", " ", "p",
              "a", "r", "t", "i", "a", "l", " ", "a", "g", "i", " ", "r", "e", "s",
              "p", "o", "n", "s", "e", ":", " ">> \o e.text
      [] e.kind = "ErrFailedToParse200Response" ->
            <<"f", "a", "i", "l", "e", "d", " ", "t", "o", " ", "p", "a", "r", "s",
              "e", " ", "A", "G", "I", " ", "2", "0", "0", " ", "r", "e", "p", "l",
              "y", ":", " ", "s", "t", "r", "c", "o", "n", "v", ".", "A", "t", "o",
              "i", ":", " ", "p", "a", "r", "s", "i", "n", "g", " ", "\"">>
            \o e.text \o <<"\"", ":", " ">>
            \o (IF e.cause = "ErrRange"
                THEN <<"v", "a", "l", "u", "e", " ", "o", "u", "t", " ", "o", "f", " ",
                       "r", "a", "n", "g", "e">>
                ELSE <<"i", "n", "v", "a", "l", "i", "d", " ", "s", "y", "n", "t", "a", "x">>)
      [] OTHER -> e.text

----------------------------------------------------------------------------
(* The input side: bufio.Reader over the transport *)

\* A read that returns the buffered bytes alone, with an error, when the
\* buffer holds the beginning of a line and not its terminator.
ReadBytesBuffered(rb, w) ==
    LET avail == rb \o w
        i     == IndexByte(avail, NL)
    IN IF rb # <<>> /\ IndexByte(rb, NL) < 0
       THEN {[data |-> rb, err |-> e, rbuf |-> <<>>, wire |-> w] : e \in ReadErrors}
       ELSE IF i >= 0
       THEN IF i < Len(rb)
            THEN {[data |-> Slice(rb, 0, i + 1), err |-> Nil,
                   rbuf |-> Slice(rb, i + 1, Len(rb)), wire |-> w]}
            ELSE LET rest == Slice(avail, i + 1, Len(avail))
                 IN {[data |-> Slice(avail, 0, i + 1), err |-> Nil,
                      rbuf |-> Slice(rest, 0, k), wire |-> Slice(rest, k, Len(rest))]
                     : k \in 0..Len(rest)}
       ELSE {[data |-> avail, err |-> e, rbuf |-> <<>>, wire |-> <<>>] : e \in ReadErrors}

\* a.buf.ReadBytes(10): the possible results of one call on buffer rb and
\* unread transport bytes w.  data is the text returned (terminator included),
\* err the error returned, rbuf and wire the input side afterwards.  When the
\* terminator is not in the buffer the reader fills the buffer from the
\* transport, which may hand over any amount of the bytes that follow the line.
\* Without a terminator the call returns all remaining data and the read
\* error of the transport (when the transport blocks instead, the call does
\* not return and there is no step).
ReadBytes(rb, w) ==
    LET avail == rb \o w
        i     == IndexByte(avail, NL)
    IN IF i >= 0
       THEN IF i < Len(rb)
            THEN {[data |-> Slice(rb, 0, i + 1), err |-> Nil,
                   rbuf |-> Slice(rb, i + 1, Len(rb)), wire |-> w]}
            ELSE LET rest == Slice(avail, i + 1, Len(avail))
                 IN {[data |-> Slice(avail, 0, i + 1), err |-> Nil,
                      rbuf |-> Slice(rest, 0, k), wire |-> Slice(rest, k, Len(rest))]
                     : k \in 0..Len(rest)}
       ELSE {[data |-> avail, err |-> e, rbuf |-> <<>>, wire |-> <<>>] : e \in ReadErrors}

----------------------------------------------------------------------------
(* parseResponse *)

\* Mutant of readFailed: a read error is ignored when some data was read.
readFailedUnlessData(o) == o.err # Nil /\ o.data = <<>>

\* if err != nil { return r, err }
readFailed(o) == o.err # Nil

\* line = line[:len(line)-1]
stripNewline(line) == Slice(line, 0, Len(line) - 1)

\* Mutant of noStatus: a separating space at the end of the line is accepted.
noStatusFirstOnly(line, ind) == ind <= 0

\* if ind <= 0 || ind == len(line)-1
noStatus(line, ind) == ind <= 0 \/ ind = Len(line) - 1

\* Mutant of isHangup: the line only has to start with HANGUP.
isHangupPrefix(line) == HasPrefix(line, HANGUP)

\* bytes.Equal(line, []byte("HANGUP"))
isHangup(line) == line = HANGUP

\* Mutant of wrapAtoi: a conversion failure is reported as a malformed 200 response.
wrapAtoiMalformed(tok) ==
    IF Atoi(tok).err = "nil" THEN Nil ELSE ErrMalformed200Response(tok)

\* if err != nil { err = ErrFailedToParse200Response{err} }
wrapAtoi(tok) ==
    IF Atoi(tok).err = "nil" THEN Nil
    ELSE ErrFailedToParse200Response(tok, Atoi(tok).err)

\* Mutant of payload: the separating space is kept.
payloadWithSpace(line, spInd) == Slice(line, spInd, Len(line))

\* r.Dat = string(line[spInd+1:])
payload(line, spInd) == Slice(line, spInd + 1, Len(line))

\* case "200": line is the status line; the result is the Reply and the error
\* of the branch.  After the prefix is stripped the variable line holds the
\* rest, which is what the malformed-200 error of the inner fall-through quotes.
parse200(line) ==
    LET eqInd == IndexByte(line, EQ)
    IN IF eqInd = Len(Result200) /\ eqInd < Len(line) - 1
       THEN LET rest  == Slice(line, eqInd + 1, Len(line))
                spInd == IndexByte(rest, SP)
            IN IF spInd < 0
               THEN [r |-> [Res |-> Atoi(rest).val, Dat |-> <<>>], err |-> wrapAtoi(rest)]
               ELSE IF spInd > 0 /\ spInd < Len(rest) - 1
                    THEN [r   |-> [Res |-> Atoi(Slice(rest, 0, spInd)).val,
                                   Dat |-> payload(rest, spInd)],
                          err |-> wrapAtoi(Slice(rest, 0, spInd))]
                    ELSE [r |-> EmptyReply, err |-> ErrMalformed200Response(rest)]
       ELSE [r |-> EmptyReply, err |-> ErrMalformed200Response(line)]

\* Mutant of statusError: 511 is reported as the unknown-command error.
statusError511As510(line, ind) ==
    LET tok == Slice(line, 0, ind)
    IN CASE tok = T510 -> Err510Response
         [] tok = T511 -> Err510Response
         [] tok = T520 -> Err520Response
         [] tok = T520Invalid -> Err520Response
         [] OTHER -> ErrMalformedAGIResponse(line)

\* The error of the cases "510", "511", "520", "520-Invalid" and default of
\* switch string(line[:ind]).
statusError(line, ind) ==
    LET tok == Slice(line, 0, ind)
    IN CASE tok = T510 -> Err510Response
         [] tok = T511 -> Err511Response
         [] tok = T520 -> Err520Response
         [] tok = T520Invalid -> Err520Response
         [] OTHER -> ErrMalformedAGIResponse(line)

\* Mutant of readsDoc: the documentation line is left in the stream.
readsDocNever(line, ind) == FALSE

\* Mutant of readsDoc: the second line is read after every 520 status.
readsDocAll520(line, ind) == HasPrefix(line, T520)

\* case "520-Invalid": a.buf.ReadBytes(10) is called once more.
readsDoc(line, ind) == Slice(line, 0, ind) = T520Invalid

\* The body of parseResponse after the first ReadBytes returned o: the Reply,
\* the error and whether a second ReadBytes follows.
classify(o) ==
    IF readFailed(o)
    THEN [r |-> EmptyReply, err |-> o.err, doc |-> FALSE]
    ELSE LET line == stripNewline(o.data)
             ind  == IndexByte(line, SP)
         IN IF noStatus(line, ind)
            THEN [r   |-> EmptyReply,
                  err |-> IF isHangup(line) THEN ErrHangupResponse
                          ELSE ErrMalformedAGIResponse(line),
                  doc |-> FALSE]
            ELSE IF Slice(line, 0, ind) = T200
                 THEN [r |-> parse200(line).r, err |-> parse200(line).err, doc |-> FALSE]
                 ELSE [r |-> EmptyReply, err |-> statusError(line, ind),
                       doc |-> readsDoc(line, ind)]

\* a.parseResponse() on buffer rb and transport bytes w: every way the call
\* can return, as the Reply, the error, the input side afterwards and the
\* ReadBytes results in order.  The set is empty when the call never returns.
parseResponse(rb, w) ==
    UNION {
        LET c == classify(o)
        IN IF c.doc
           THEN {[r |-> c.r, err |-> c.err, rbuf |-> d.rbuf, wire |-> d.wire,
                  reads |-> <<[data |-> o.data, err |-> o.err],
                              [data |-> d.data, err |-> d.err]>>]
                 : d \in ReadBytes(o.rbuf, o.wire)}
           ELSE {[r |-> c.r, err |-> c.err, rbuf |-> o.rbuf, wire |-> o.wire,
                  reads |-> <<[data |-> o.data, err |-> o.err]>>]}
        : o \in ReadBytes(rb, w)}

----------------------------------------------------------------------------
(* parseEnv *)

\* Least and greatest number of environment lines.
envMin == 18

envMax == 150

COLON == ":"

\* len("\r\n"), len("agi_type"), len("agi_network_script"), len("agi_"), len(": ").
LenCRLF == 2

LenAgiType == 8

LenAgiNetworkScript == 18

LenAgiPrefix == 4

LenColonSpace == 2

\* A map value: the nil map, or a map with entries kv.  New() makes an
\* empty map.
EmptyMap == [k \in {} |-> <<>>]

NilEnv == [isNil |-> TRUE, kv |-> EmptyMap]

NewEnv == [isNil |-> FALSE, kv |-> EmptyMap]

\* len(m): the number of entries, 0 for the nil map.
MapLen(m) == Cardinality(DOMAIN m.kv)

\* m[k] = v on a map that is not nil.
MapSet(m, k, v) == [m EXCEPT !.kv = (k :> v) @@ m.kv]

\* fmt.Errorf("malformed environment input: %s", string(line)).
ErrMalformedEnv(line) ==
    [kind |-> "fmt.Errorf",
     text |-> <<"m", "a", "l", "f", "o", "r", "m", "e", "d", " ", "e", "n", "v", "i", "r", "o", "n", "m", "e", "n", "t", " ", "i", "n", "p", "u", "t", ":", " ">>
              \o line,
     cause |-> "none"]

\* fmt.Errorf("incomplete environment with only %d env vars", n).
ErrIncompleteEnv(n) ==
    [kind |-> "fmt.Errorf",
     text |-> <<"i", "n", "c", "o", "m", "p", "l", "e", "t", "e", " ", "e", "n", "v", "i", "r", "o", "n", "m", "e", "n", "t", " ", "w", "i", "t", "h", " ", "o", "n", "l", "y", " ">>
              \o Itoa(n) \o <<" ", "e", "n", "v", " ", "v", "a", "r", "s">>,
     cause |-> "none"]

\* The line ends the block: it holds no more than a terminator.
endsBlock(data) == Len(data) <= LenCRLF

\* Mutant of malformedEnv: a colon that ends the line is accepted.
malformedEnvColonLast(line, ind) ==
    \/ ind < LenAgiType
    \/ ind > LenAgiNetworkScript

\* The position ind of the first colon does not delimit a key.
malformedEnv(line, ind) ==
    \/ ind < LenAgiType
    \/ ind > LenAgiNetworkScript
    \/ ind = Len(line) - 1

\* Mutant of envKey: the prefix "agi_" stays in the key.
envKeyWithPrefix(line, ind) == Slice(line, 0, ind)

\* The key stored for line: the text between "agi_" and the colon.
envKey(line, ind) == Slice(line, LenAgiPrefix, ind)

\* The value stored for line: the text after ": ".
envValue(line, ind) == Slice(line, ind + LenColonSpace, Len(line))

\* Mutant of incomplete: one entry is enough.
incompleteBelowOne(n) == n < 1

\* The number of entries is below the least number of environment lines.
incomplete(n) == n < envMin

\* One iteration of the loop of parseEnv on the loop state st: the unread
\* input (buffer and transport together), the map, the value of err, how the
\* loop goes on ("run", "break" after the break statement, "return" after
\* the return statement, "panic" after a store into the nil map) and the
\* ReadBytes results so far; e is the error the transport reports at its
\* end.  An iteration after the loop was left does nothing.
envBody(st, e) ==
    IF st.stop # "run" THEN st
    ELSE LET nl   == IndexByte(st.rest, NL)
             data == IF nl >= 0 THEN Slice(st.rest, 0, nl + 1) ELSE st.rest
             rerr == IF nl >= 0 THEN Nil ELSE e
             rest == IF nl >= 0 THEN Slice(st.rest, nl + 1, Len(st.rest)) ELSE <<>>
             rds  == Append(st.reads, [data |-> data, err |-> rerr])
             line == Slice(data, 0, Len(data) - 1)
             ind  == IndexByte(line, COLON)
         IN IF rerr # Nil \/ endsBlock(data)
            THEN [st EXCEPT !.err = rerr, !.stop = "break", !.reads = rds, !.rest = rest]
            ELSE IF malformedEnv(line, ind)
            THEN [st EXCEPT !.Env = NilEnv, !.err = ErrMalformedEnv(line),
                            !.stop = "return", !.reads = rds, !.rest = rest]
            ELSE IF st.Env.isNil
            THEN [st EXCEPT !.stop = "panic", !.reads = rds, !.rest = rest]
            ELSE [st EXCEPT !.Env = MapSet(st.Env, envKey(line, ind), envValue(line, ind)),
                            !.err = Nil, !.reads = rds, !.rest = rest]

RECURSIVE envLoop(_, _, _)
\* k iterations of the loop from the loop state st: the first half of them,
\* then, unless the loop was left, the other half.
envLoop(st, k, e) ==
    IF k = 0 THEN st
    ELSE IF k = 1 THEN envBody(st, e)
    ELSE LET half == envLoop(st, k \div 2, e)
         IN IF half.stop # "run" THEN half
            ELSE envLoop(half, k - (k \div 2), e)

\* The tail of parseEnv: a map with too few entries is dropped.
envResult(st) ==
    IF st.stop \in {"run", "break"} /\ incomplete(MapLen(st.Env))
    THEN [st EXCEPT !.Env = NilEnv, !.err = ErrIncompleteEnv(MapLen(st.Env))]
    ELSE st

\* a.parseEnv() on buffer rb, transport bytes w and map env: every way the
\* call can end, as the map, the error, whether it panicked, the input side
\* afterwards and the ReadBytes results in order.  When all lines read lay in
\* the buffer the transport is untouched; otherwise the reader may have
\* fetched any amount of the bytes that follow the last line read.
parseEnv(rb, w, env) ==
    UNION {
        LET st0  == [rest |-> rb \o w, Env |-> env, err |-> Nil, stop |-> "run",
                     reads |-> <<>>]
            x    == envResult(envLoop(st0, envMax + 1, e))
            used == Len(rb) + Len(w) - Len(x.rest)
        IN IF used <= Len(rb) /\ x.reads[Len(x.reads)].err = Nil
           THEN {[Env |-> x.Env, err |-> x.err, panic |-> x.stop = "panic",
                  reads |-> x.reads,
                  rbuf |-> Slice(rb, used, Len(rb)), wire |-> w]}
           ELSE {[Env |-> x.Env, err |-> x.err, panic |-> x.stop = "panic",
                  reads |-> x.reads,
                  rbuf |-> Slice(x.rest, 0, k),
                  wire |-> Slice(x.rest, k, Len(x.rest))]
                 : k \in 0..Len(x.rest)}
        : e \in ReadErrors}

----------------------------------------------------------------------------
(* sendMsg *)

\* strings.Replace(s, old, new, -1) for one-byte old and new.
Replace(s, old, new) == [i \in 1..Len(s) |-> IF s[i] = old THEN new ELSE s[i]]

RECURSIVE Sprintf(_)
\* fmt.Sprintf(format) without operands: plain bytes are copied, "%%" gives
\* "%", a verb without operand gives "%!v(MISSING)" and a lone "%" at the end
\* gives "%!(NOVERB)".
Sprintf(format) ==
    IF format = <<>> THEN <<>>
    ELSE IF format[1] # "%" THEN <<format[1]>> \o Sprintf(Tail(format))
    ELSE IF Len(format) = 1 THEN <<"%", "!", "(", "N", "O", "V", "E", "R", "B", ")">>
    ELSE IF format[2] = "%" THEN <<"%">> \o Sprintf(Tail(Tail(format)))
    ELSE <<"%", "!", format[2], "(", "M", "I", "S", "S", "I", "N", "G", ")">>
         \o Sprintf(Tail(Tail(format)))

\* fmt.Errorf(format): a fresh error value whose message is Sprintf(format).
Errorf(format) == [kind |-> "fmt.Errorf", text |-> Sprintf(format), cause |-> "none"]

\* Mutant of wireLine: only carriage returns are replaced.
wireLineCROnly(s) == Replace(s, CR, SP) \o <<NL>>

\* The line sendMsg hands to the writer: s with "\r" and "\n" replaced, + "\n".
wireLine(s) == Replace(Replace(s, CR, SP), NL, SP) \o <<NL>>

\* Mutant of hasBuffered: buffered bytes are not looked at.
hasBufferedNever(rb) == FALSE

\* a.buf.Reader.Buffered() != 0: the reader holds unread bytes.
hasBuffered(rb) == Len(rb) # 0

\* Mutant of Flush: the write buffer is never handed to the transport.
FlushNothing(line) == {[err |-> Nil, out |-> <<>>]}

\* a.buf.Flush() with line in the write buffer: every way it can return, as
\* the error and the bytes the transport took.  The writer keeps a failure
\* as its sticky error.
Flush(line) ==
    {[err |-> Nil, out |-> line]}
    \cup {[err |-> ErrBrokenPipe, out |-> Slice(line, 0, k)] : k \in 0..(Len(line) - 1)}

\* Mutant of flushFailed: the error of Flush is dropped.
flushFailedIgnored(f) == FALSE

\* sendMsg returns the error of a failed Flush before it reads.
flushFailed(f) == f.err # Nil

\* The calls parseResponse makes on a.buf for n lines read.
readCalls(n) == [i \in 1..n |-> "ReadBytes"]

\* a.sendMsg(s) on buffer rb, transport bytes w and a writer with sticky
\* error we: every way the call can return, as the Reply, the error, both
\* sides of a.buf afterwards, the bytes handed to the transport, the
\* ReadBytes results and the calls made on a.buf in order.  The commands of
\* the model fit the write buffer, so WriteString itself reaches the
\* transport only through Flush.
sendMsg(s, rb, w, we) ==
    IF hasBuffered(rb)
    THEN \* Data is buffered: one line is read and returned as the error.
         {[r |-> EmptyReply, err |-> Errorf(Slice(o.data, 0, Len(o.data) - 1)),
           rbuf |-> o.rbuf, wire |-> o.wire, werr |-> we, out |-> <<>>,
           reads |-> <<[data |-> o.data, err |-> o.err]>>,
           trace |-> <<"Buffered", "ReadBytes">>, op |-> "sendMsg:buffered"]
          : o \in ReadBytes(rb, w)}
    ELSE IF we # Nil
    THEN \* WriteString fails: the writer carries the error of an earlier flush.
         {[r |-> EmptyReply, err |-> we, rbuf |-> rb, wire |-> w, werr |-> we,
           out |-> <<>>, reads |-> <<>>,
           trace |-> <<"Buffered", "WriteString">>, op |-> "sendMsg:write"]}
    ELSE UNION {
           IF flushFailed(f)
           THEN \* Flush fails: the transport took only a part of the line.
                {[r |-> EmptyReply, err |-> f.err, rbuf |-> rb, wire |-> w,
                  werr |-> f.err, out |-> f.out, reads |-> <<>>,
                  trace |-> <<"Buffered", "WriteString", "Flush">>,
                  op |-> "sendMsg:flush"]}
           ELSE \* The command is written and flushed; the reply is parsed.
                {[r |-> x.r, err |-> x.err, rbuf |-> x.rbuf, wire |-> x.wire,
                  werr |-> f.err, out |-> f.out, reads |-> x.reads,
                  trace |-> <<"Buffered", "WriteString", "Flush">>
                            \o readCalls(Len(x.reads)),
                  op |-> "sendMsg:sent"]
                 : x \in parseResponse(rb, w)}
           : f \in Flush(wireLine(s))}

----------------------------------------------------------------------------
(* Session.Init and the command wrappers *)

RECURSIVE quoteBody(_)
\* The body of strconv.Quote(s) for ASCII text: quote, backslash, newline
\* and carriage return are escaped, printable bytes are copied.
quoteBody(s) ==
    IF s = <<>> THEN <<>>
    ELSE (CASE s[1] = "\"" -> <<"\\", "\"">>
            [] s[1] = "\\" -> <<"\\", "\\">>
            [] s[1] = NL -> <<"\\", "n">>
            [] s[1] = CR -> <<"\\", "r">>
            [] OTHER -> <<s[1]>>) \o quoteBody(Tail(s))

\* The verb %q applied to a string.
Quote(s) == <<"\"">> \o quoteBody(s) \o <<"\"">>

\* fmt.Sprintf("GET OPTION %q %q", filename, escape).
getOptionCmd(filename, escape) ==
    <<"G", "E", "T", " ", "O", "P", "T", "I", "O", "N", " ">>
    \o Quote(filename) \o <<SP>> \o Quote(escape)

\* strings.TrimPrefix(s, p).
TrimPrefix(s, p) == IF HasPrefix(s, p) THEN Slice(s, Len(p), Len(s)) ELSE s

Endpos == <<"e", "n", "d", "p", "o", "s", "=">>

\* The Reply GetOption returns for the Reply rep of sendMsg.
getOptionReply(rep) ==
    IF rep.Dat # <<>> THEN [rep EXCEPT !.Dat = TrimPrefix(rep.Dat, Endpos)] ELSE rep

\* The name of a path of sendMsg taken inside GetOption.
getOptionOp(o) ==
    CASE o = "sendMsg:buffered" -> "GetOption:buffered"
      [] o = "sendMsg:write" -> "GetOption:write"
      [] o = "sendMsg:flush" -> "GetOption:flush"
      [] o = "sendMsg:sent" -> "GetOption:sent"

\* strings.TrimSuffix(s, p).
TrimSuffix(s, p) ==
    IF Len(s) >= Len(p) /\ Slice(s, Len(s) - Len(p), Len(s)) = p
    THEN Slice(s, 0, Len(s) - Len(p))
    ELSE s

LPAREN == <<"(">>

RPAREN == <<")">>

DQUOTE == <<"\"">>

\* An int formatted in decimal between the double quotes of the format.
QuotedInt(n) == DQUOTE \o Itoa(n) \o DQUOTE

\* strings.Trim(s, "()"): every leading and trailing parenthesis is removed.
RECURSIVE TrimParens(_)
TrimParens(s) ==
    IF s # <<>> /\ s[1] \in {"(", ")"} THEN TrimParens(Slice(s, 1, Len(s)))
    ELSE IF s # <<>> /\ s[Len(s)] \in {"(", ")"} THEN TrimParens(Slice(s, 0, Len(s) - 1))
    ELSE s

\* The reply with every outer parenthesis of the payload removed.
parenReplyTrimAll(rep) ==
    IF rep.Dat # <<>> THEN [rep EXCEPT !.Dat = TrimParens(rep.Dat)] ELSE rep

\* The reply of GetVariable, GetFullVariable, DatabaseGet and ReceiveText:
\* a payload that is not empty loses one leading "(" and one trailing ")".
parenReply(rep) ==
    IF rep.Dat # <<>>
    THEN [rep EXCEPT !.Dat = TrimSuffix(TrimPrefix(rep.Dat, LPAREN), RPAREN)]
    ELSE rep

\* The reply with every leading endpos= of the payload removed.
RECURSIVE endposReplyTrimAll(_)
endposReplyTrimAll(rep) ==
    IF HasPrefix(rep.Dat, Endpos)
    THEN endposReplyTrimAll([rep EXCEPT !.Dat = Slice(rep.Dat, Len(Endpos), Len(rep.Dat))])
    ELSE rep

\* The reply of StreamFile: a payload that is not empty loses one leading
\* endpos=.
endposReply(rep) ==
    IF rep.Dat # <<>> THEN [rep EXCEPT !.Dat = TrimPrefix(rep.Dat, Endpos)] ELSE rep

\* The command GetOption sends when called with a timeout (the variadic
\* argument is not nil and timeout[0] is formatted).
getOptionTimeoutCmd(filename, escape, timeout) ==
    <<"G", "E", "T", " ", "O", "P", "T", "I", "O", "N", " ">>
        \o Quote(filename) \o <<SP>> \o Quote(escape) \o <<SP>> \o Itoa(timeout[1])

\* The command StreamFile sends: the variadic offset is nil when absent.
streamFileCmd(file, escape, offset) ==
    IF offset # <<>>
    THEN <<"S", "T", "R", "E", "A", "M", " ", "F", "I", "L", "E", " ">>
             \o Quote(file) \o <<SP>> \o Quote(escape) \o <<SP>> \o QuotedInt(offset[1])
    ELSE <<"S", "T", "R", "E", "A", "M", " ", "F", "I", "L", "E", " ">>
             \o Quote(file) \o <<SP>> \o Quote(escape)

\* The command GetVariable sends.
getVariableCmd(name) ==
    <<"G", "E", "T", " ", "V", "A", "R", "I", "A", "B", "L", "E", " ">> \o Quote(name)

\* The command GetFullVariable sends: the variadic channel is nil when absent.
getFullVariableCmd(name, channel) ==
    IF channel # <<>>
    THEN <<"G", "E", "T", " ", "F", "U", "L", "L", " ", "V", "A", "R", "I", "A", "B", "L", "E", " ">>
             \o Quote(name) \o <<SP>> \o Quote(channel[1])
    ELSE <<"G", "E", "T", " ", "F", "U", "L", "L", " ", "V", "A", "R", "I", "A", "B", "L", "E", " ">>
             \o Quote(name)

\* The command DatabaseGet sends.
databaseGetCmd(family, key) ==
    <<"D", "A", "T", "A", "B", "A", "S", "E", " ", "G", "E", "T", " ">>
        \o Quote(family) \o <<SP>> \o Quote(key)

\* The command ReceiveText sends.
receiveTextCmd(timeout) ==
    <<"R", "E", "C", "E", "I", "V", "E", " ", "T", "E", "X", "T", " ">> \o QuotedInt(timeout)

\* The path sendMsg took, as the call of StreamFile records it.
streamFileOp(o) ==
    CASE o = "sendMsg:buffered" -> "StreamFile:buffered"
      [] o = "sendMsg:write" -> "StreamFile:write"
      [] o = "sendMsg:flush" -> "StreamFile:flush"
      [] o = "sendMsg:sent" -> "StreamFile:sent"

\* The path sendMsg took, as the call of GetVariable records it.
getVariableOp(o) ==
    CASE o = "sendMsg:buffered" -> "GetVariable:buffered"
      [] o = "sendMsg:write" -> "GetVariable:write"
      [] o = "sendMsg:flush" -> "GetVariable:flush"
      [] o = "sendMsg:sent" -> "GetVariable:sent"

\* The path sendMsg took, as the call of GetFullVariable records it.
getFullVariableOp(o) ==
    CASE o = "sendMsg:buffered" -> "GetFullVariable:buffered"
      [] o = "sendMsg:write" -> "GetFullVariable:write"
      [] o = "sendMsg:flush" -> "GetFullVariable:flush"
      [] o = "sendMsg:sent" -> "GetFullVariable:sent"

\* The path sendMsg took, as the call of DatabaseGet records it.
databaseGetOp(o) ==
    CASE o = "sendMsg:buffered" -> "DatabaseGet:buffered"
      [] o = "sendMsg:write" -> "DatabaseGet:write"
      [] o = "sendMsg:flush" -> "DatabaseGet:flush"
      [] o = "sendMsg:sent" -> "DatabaseGet:sent"

\* The path sendMsg took, as the call of ReceiveText records it.
receiveTextOp(o) ==
    CASE o = "sendMsg:buffered" -> "ReceiveText:buffered"
      [] o = "sendMsg:write" -> "ReceiveText:write"
      [] o = "sendMsg:flush" -> "ReceiveText:flush"
      [] o = "sendMsg:sent" -> "ReceiveText:sent"

\* The path sendMsg took, as the call of GetOptionTimeout records it.
getOptionTimeoutOp(o) ==
    CASE o = "sendMsg:buffered" -> "GetOptionTimeout:buffered"
      [] o = "sendMsg:write" -> "GetOptionTimeout:write"
      [] o = "sendMsg:flush" -> "GetOptionTimeout:flush"
      [] o = "sendMsg:sent" -> "GetOptionTimeout:sent"

----------------------------------------------------------------------------
(* Inputs *)

\* Result values sent by the peer.
Ints == {MinInt, -12, 0, 7, MaxInt}

Payloads ==
    {<<"f", "o", "o">>,
     <<"a", "=", "b", " ", "c">>,
     <<" ", "x">>,
     <<" ">>}

\* Result tokens that are not the decimal text of an int.
BadTokens ==
    {<<"x">>,
     <<"-">>,
     <<"2", "1", "4", "7", "4", "8", "3", "6", "4", "8">>,
     <<"-", "2", "1", "4", "7", "4", "8", "3", "6", "4", "9">>}

ResultLines == {Result200 \o <<EQ>> \o Itoa(n) : n \in Ints}

ResultDataLines ==
    {Result200 \o <<EQ>> \o Itoa(n) \o <<SP>> \o p : n \in {-12, 7}, p \in Payloads}

BadTokenLines ==
    {Result200 \o <<EQ>> \o t \o p : t \in BadTokens, p \in {<<>>, <<" ", "f", "o", "o">>}}

Malformed200Lines ==
    {<<"2", "0", "0">>,
     <<"2", "0", "0", " ">>,
     <<"2", "0", "0", " ", "r", "e", "s", "u", "l", "t", " ", "1">>,
     <<"2", "0", "0", " ", "r", "e", "s", "u", "l", "t", "=", " ", "1">>,
     <<"2", "0", "0", " ", "r", "e", "s", "u", "l", "t", "=">>,
     <<"2", "0", "0", " ", "r", "e", "s", "u", "l", "t", "=", "1", " ">>,
     <<"2", "0", "0", " ", " ", "r", "e", "s", "u", "l", "t", "=", "1">>,
     <<"2", "0", "0", " ", "r", "e", "s", "=", "1">>,
     <<"2", "0", "0", " ", "f", "o", "o", "b", "a", "r", "=", "7">>,
     <<"2", "0", "0", " ", "f", "o", "o", "b", "a", "r", "=", "7", " ", "f", "o", "o">>}

StatusLines ==
    {<<"5", "1", "0", " ", "x">>,
     <<"5", "1", "0">>,
     <<"5", "1", "0", " ">>,
     <<"5", "1", "1", " ", "x">>,
     <<"5", "1", "1", " ">>,
     <<"5", "2", "0", " ", "x">>,
     <<"5", "2", "0", " ">>,
     <<"5", "2", "0", "-", "I", "n", "v", "a", "l", "i", "d", " ", "x">>,
     <<"5", "2", "0", "-", "I", "n", "v", "a", "l", "i", "d">>,
     <<"5", "2", "0", "-", "I", "n", "v", "a", "l", "i", "d", " ">>,
     <<"5", "1", "0", "0", " ", "x">>,
     <<"2", "0", "1", " ", "x">>}

OddLines ==
    {<<"H", "A", "N", "G", "U", "P">>,
     <<"H", "A", "N", "G", "U", "P", " ">>,
     <<"H", "A", "N", "G", "U", "P", " ", "x">>,
     <<"H", "A", "N", "G", "U", "P", "X">>,
     <<" ", "H", "A", "N", "G", "U", "P">>,
     <<>>,
     <<" ">>,
     <<"x">>,
     <<"n", "o", " ", "r", "e", "p", "l", "y">>,
     <<" ", "2", "0", "0", " ", "r", "e", "s", "u", "l", "t", "=", "1">>}

\* Every line (without terminator) the peer may send.
Lines ==
    ResultLines \cup ResultDataLines \cup BadTokenLines \cup Malformed200Lines
    \cup StatusLines \cup OddLines

\* Lines the peer may send at every position of its output.
FollowLines ==
    {<<"5", "1", "0", " ", "x">>,
     <<"5", "2", "0", "-", "I", "n", "v", "a", "l", "i", "d", " ", "x">>}

\* Unterminated text the peer's output may end with.
Tails ==
    {<<>>,
     <<"H", "A", "N", "G", "U", "P">>}

\* Commands handed to sendMsg.
Cmds ==
    {<<"A", "\r", "\n">>}

\* The peer's outputs of n lines: lines of FollowLines with at most one
\* line of Lines among them.
ScriptsOfLen(n) ==
    [1..n -> FollowLines]
    \cup {[s EXCEPT ![i] = f] : s \in [1..n -> FollowLines], i \in 1..n, f \in Lines}

Scripts == UNION {ScriptsOfLen(n) : n \in 0..MaxLines}

RECURSIVE Flatten(_)
\* The bytes of a sequence of lines, each followed by its terminator.
Flatten(ls) ==
    IF Len(ls) = 0 THEN <<>>
    ELSE IF Len(ls) = 1 THEN ls[1] \o <<NL>>
    ELSE LET h == Len(ls) \div 2
         IN Flatten(SubSeq(ls, 1, h)) \o Flatten(SubSeq(ls, h + 1, Len(ls)))

Streams == {Flatten(ls) \o t : ls \in Scripts, t \in Tails}

\* The environment lines the peer sends: line i has key EnvName(i) after
\* the prefix "agi_" and value EnvVal(i).  The first lines have the shortest
\* and the longest key, a value holding ": ", an empty value and a value
\* ending in a carriage return.
EnvName(i) ==
    CASE i = 1 -> <<"t", "y", "p", "e">>
      [] i = 2 -> <<"n", "e", "t", "w", "o", "r", "k", "_", "s", "c", "r", "i", "p", "t">>
      [] i = 3 -> <<"c", "a", "l", "l", "e", "r", "i", "d">>
      [] i = 4 -> <<"u", "n", "i", "q", "u", "e", "i", "d">>
      [] OTHER -> <<"a", "r", "g", "_">> \o Itoa(i)

EnvVal(i) ==
    CASE i = 1 -> <<"S", "I", "P">>
      [] i = 2 -> <<"a", ":", " ", "b">>
      [] i = 3 -> <<>>
      [] i = 4 -> <<"1", ".", "2", "\r">>
      [] OTHER -> <<"v">> \o Itoa(i)

AgiPrefix == <<"a", "g", "i", "_">>

ColonSpace == <<":", " ">>

EnvLine(i) == AgiPrefix \o EnvName(i) \o ColonSpace \o EnvVal(i)

\* The first n environment lines.
EnvLines(n) == [i \in 1..n |-> EnvLine(i)]

\* Numbers of lines of the blocks: around the least number of environment
\* lines and around the greatest number of iterations of the loop.
EnvSizes == {0, 1, envMin - 1, envMin, envMin + 1, envMax, envMax + 1, envMax + 2}

\* Lines that are not `agi_<key>: <value>` lines with a fresh key: the
\* lines of envInv, keys one byte too short and too long, a colon without
\* the space, and a key sent before.
DefectLines ==
    {<<"a", "g", "i", "_", ":">>,
     <<"a", "g", "i", "_", "a", "r", "g", "_", "1", " ", "f", "o", "o">>,
     <<"a", "g", "i", "_", "t", "y", "p", "e", ":">>,
     <<"a", "g", "i", "_", "v", "e", "r", "y", "l", "o", "n", "g", "r", "a", "n", "d", "o", "m", "p", "a", "r", "a", "m", "e", "t", "e", "r", ":", " ", "0">>,
     <<"a">>,
     <<"a", "g", "i", "_", "t", "y", "p", ":", " ", "v">>,
     <<"a", "g", "i", "_", "n", "e", "t", "w", "o", "r", "k", "_", "s", "c", "r", "i", "p", "t", "s", ":", " ", "v">>,
     <<"a", "g", "i", "_", "m", "o", "d", "e", ":", "x">>,
     <<"a", "g", "i", "_", "t", "y", "p", "e", ":", " ", "I", "A", "X">>}

\* Sizes of the blocks a defect line is put into.
DefectSizes == {0, 1, envMin, envMin + 1}

\* ls with line d put in as line p.
InsertLine(ls, p, d) == SubSeq(ls, 1, p - 1) \o <<d>> \o SubSeq(ls, p, Len(ls))

Reply1234 == <<"2", "0", "0", " ", "r", "e", "s", "u", "l", "t", "=", "1", " ", "e", "n", "d", "p", "o", "s", "=", "1", "2", "3", "4">>

\* What the peer sends after the blank line that ends the block.
EnvReplies ==
    {<<>>,
     Reply1234 \o <<NL>>,
     HANGUP \o <<NL>>,
     Reply1234 \o <<NL>> \o HANGUP}

\* What the peer's output ends with when it sends no blank line.
EnvTails ==
    {<<>>,
     <<"a", "g", "i", "_", "x">>}

\* Blocks of n lines with a defect line put in as their first or after their
\* last line, followed by the blank line and a reply.
DefectStreams(n) ==
    {Flatten(InsertLine(EnvLines(n), p, d)) \o <<NL>> \o Reply1234 \o <<NL>>
     : p \in {1, n + 1}, d \in DefectLines}

\* The peer's outputs at the start of a session.
EnvStreams ==
    {Flatten(EnvLines(n)) \o <<NL>> \o rep : n \in EnvSizes, rep \in EnvReplies}
    \cup {Flatten(EnvLines(n)) \o tl : n \in EnvSizes, tl \in EnvTails}
    \cup UNION {DefectStreams(n) : n \in DefectSizes}

\* Arguments of GetOption.
Filenames == {<<"e", "c", "h", "o">>}

Escapes == {<<"a", "n", "y">>}

\* Commands handed to sendMsg by callers of the dispatcher.
SendCmds ==
    {<<"A", "\r", "\n">>,
     <<"\r", "B", "\n", "C">>,
     <<"\n", "\n">>,
     <<"N", "O", "O", "P">>,
     <<>>}

\* Lines sent to a caller of the dispatcher.
SendLines ==
    {<<"2", "0", "0", " ", "r", "e", "s", "u", "l", "t", "=", "0">>,
     <<"H", "A", "N", "G", "U", "P">>,
     <<"5", "2", "0", "-", "I", "n", "v", "a", "l", "i", "d", " ", "x">>,
     <<"5", "0", "%">>}

\* The peer's outputs to a caller of the dispatcher.
SendStreams ==
    {Flatten(ls) \o tl : ls \in UNION {[1..n -> SendLines] : n \in 0..MaxLines}, tl \in Tails}

\* Payloads of the replies to the command wrappers.
CmdPayloads ==
    {<<"e", "n", "d", "p", "o", "s", "=", "1", "2", "3", "4">>,
     <<"e", "n", "d", "p", "o", "s", "=", "e", "n", "d", "p", "o", "s", "=", "5">>,
     <<"x", " ", "e", "n", "d", "p", "o", "s", "=", "1">>,
     <<"e", "n", "d", "p", "o", "s", "=">>,
     <<"(", ")">>,
     <<"(", "a", " ", "b", ")">>,
     <<"(", "(", "a", ")", ")">>,
     <<"(", "a", ")", ")">>,
     <<"(", "(", "a", ")">>,
     <<"(", ")", "(", ")">>,
     <<"a">>}

\* Replies the peer sends to the command wrappers.
CmdLines ==
    {Result200 \o <<EQ>> \o Itoa(1) \o <<SP>> \o p : p \in CmdPayloads}
    \cup {Result200 \o <<EQ>> \o Itoa(1),
          Result200 \o <<EQ>> \o Itoa(0) \o <<SP>> \o Endpos \o Itoa(7),
          Result200 \o <<EQ>> \o Itoa(-1) \o <<SP>> \o LPAREN \o RPAREN,
          HANGUP}

\* The peer's outputs to a session that calls the command wrappers: the
\* environment, the blank line and a reply.
CmdStreams == {Flatten(EnvLines(envMin)) \o <<NL>> \o l \o <<NL>> : l \in CmdLines}

\* Arguments of the command wrappers.
VarNames == {<<"v">>}

Channels == {<<>>, <<<<"c">>>>}

Families == {<<"f">>}

Keys == {<<"k">>}

Timeouts == {5}

Offsets == {<<>>, <<5>>}

----------------------------------------------------------------------------
(* The state machine *)

\* No history is kept.
NoHist == [kept |-> FALSE]

\* No second session exists.
NoSession == [made |-> FALSE]

\* The peer's output is the whole of wire from the start and the peer is
\* not followed.
NoPeer == [followed |-> FALSE]

\* No server is followed.
NoServer == [made |-> FALSE]

Init ==
    /\ rbuf = <<>>
    /\ wire \in Streams
    /\ werr = Nil
    /\ out = <<>>
    /\ r = EmptyReply
    /\ err = Nil
    /\ op = "none"
    /\ reads = <<>>
    /\ Env = NewEnv
    /\ cmd = <<>>
    /\ trace = <<>>
    /\ hist = NoHist
    /\ other = NoSession
    /\ peer = NoPeer
    /\ srv = NoServer

\* A parseResponse that drops the environment of the session when the peer
\* has hung up.
ParseResponseDropsEnv ==
    \E x \in parseResponse(rbuf, wire) :
        /\ r' = x.r
        /\ err' = x.err
        /\ rbuf' = x.rbuf
        /\ wire' = x.wire
        /\ reads' = x.reads
        /\ op' = "parseResponse"
        /\ out' = <<>>
        /\ cmd' = <<>>
        /\ trace' = readCalls(Len(x.reads))
        /\ Env' = IF x.err = ErrHangupResponse THEN NilEnv ELSE Env
        /\ UNCHANGED <<werr, hist, other, peer, srv>>

\* What a direct call of a.parseResponse() that returns does to the session.
ParseResponseCall ==
    \E x \in parseResponse(rbuf, wire) :
        /\ r' = x.r
        /\ err' = x.err
        /\ rbuf' = x.rbuf
        /\ wire' = x.wire
        /\ reads' = x.reads
        /\ op' = "parseResponse"
        /\ out' = <<>>
        /\ cmd' = <<>>
        /\ trace' = readCalls(Len(x.reads))
        /\ UNCHANGED <<werr, Env>>

\* A direct call of a.parseResponse() that returns.
ParseResponse == ParseResponseCall /\ UNCHANGED <<hist, other, peer, srv>>

\* What a call of a.sendMsg(s) that returns does to the session.
SendMsgCall(s) ==
    \E x \in sendMsg(s, rbuf, wire, werr) :
        /\ r' = x.r
        /\ err' = x.err
        /\ rbuf' = x.rbuf
        /\ wire' = x.wire
        /\ werr' = x.werr
        /\ out' = x.out
        /\ reads' = x.reads
        /\ trace' = x.trace
        /\ op' = x.op
        /\ cmd' = s
        /\ UNCHANGED Env

\* A call of a.sendMsg(s) that returns.
SendMsg(s) == SendMsgCall(s) /\ UNCHANGED <<hist, other, peer, srv>>

Next ==
    \/ ParseResponse
    \/ \E s \in Cmds : SendMsg(s)

Spec == Init /\ [][Next]_vars

----------------------------------------------------------------------------
(* The start of a session *)

InitEnv ==
    /\ rbuf = <<>>
    /\ wire \in EnvStreams
    /\ werr = Nil
    /\ out = <<>>
    /\ r = EmptyReply
    /\ err = Nil
    /\ op = "none"
    /\ reads = <<>>
    /\ Env = NewEnv
    /\ cmd = <<>>
    /\ trace = <<>>
    /\ hist = NoHist
    /\ other = NoSession
    /\ peer = NoPeer
    /\ srv = NoServer

\* The call a.Init(rw) on the Session made by New(), rw being the
\* ReadWriter of the model: it runs parseEnv.
InitSession ==
    /\ op = "none"
    /\ \E x \in parseEnv(rbuf, wire, Env) :
        /\ ~x.panic
        /\ Env' = x.Env
        /\ err' = x.err
        /\ rbuf' = x.rbuf
        /\ wire' = x.wire
        /\ reads' = x.reads
        /\ trace' = readCalls(Len(x.reads))
    /\ op' = "Init"
    /\ r' = EmptyReply
    /\ out' = <<>>
    /\ cmd' = <<>>
    /\ UNCHANGED <<werr, hist, other, peer, srv>>

\* A call of a.GetOption(filename, escape) that returns.
GetOption(filename, escape) ==
    /\ op # "none"
    /\ \E x \in sendMsg(getOptionCmd(filename, escape), rbuf, wire, werr) :
        /\ r' = getOptionReply(x.r)
        /\ err' = x.err
        /\ rbuf' = x.rbuf
        /\ wire' = x.wire
        /\ werr' = x.werr
        /\ out' = x.out
        /\ reads' = x.reads
        /\ trace' = x.trace
        /\ op' = getOptionOp(x.op)
    /\ cmd' = getOptionCmd(filename, escape)
    /\ UNCHANGED <<Env, hist, other, peer, srv>>

NextEnv ==
    \/ InitSession
    \/ \E f \in Filenames, e \in Escapes : GetOption(f, e)

SpecEnv == InitEnv /\ [][NextEnv]_vars

----------------------------------------------------------------------------
(* Callers of the dispatcher *)

InitSend ==
    /\ rbuf = <<>>
    /\ wire \in SendStreams
    /\ werr = Nil
    /\ out = <<>>
    /\ r = EmptyReply
    /\ err = Nil
    /\ op = "none"
    /\ reads = <<>>
    /\ Env = NewEnv
    /\ cmd = <<>>
    /\ trace = <<>>
    /\ hist = NoHist
    /\ other = NoSession
    /\ peer = NoPeer
    /\ srv = NoServer

NextSend == \E s \in SendCmds : SendMsg(s)

SpecSend == InitSend /\ [][NextSend]_vars

----------------------------------------------------------------------------
(* The command wrappers *)

\* A session whose Init has returned without error, having fetched nothing
\* beyond the blank line.
InitCmd ==
    \E w \in CmdStreams :
        \E x \in parseEnv(<<>>, w, NewEnv) :
            /\ ~x.panic
            /\ x.rbuf = <<>>
            /\ rbuf = x.rbuf
            /\ wire = x.wire
            /\ Env = x.Env
            /\ err = x.err
            /\ reads = x.reads
            /\ trace = readCalls(Len(x.reads))
            /\ op = "Init"
            /\ werr = Nil
            /\ out = <<>>
            /\ r = EmptyReply
            /\ cmd = <<>>
            /\ hist = NoHist
            /\ other = NoSession
            /\ peer = NoPeer
            /\ srv = NoServer

\* A call of a.GetOption(filename, escape, timeout[1]) that returns.
GetOptionTimeout(filename, escape, timeout) ==
    /\ op # "none"
    /\ \E x \in sendMsg(getOptionTimeoutCmd(filename, escape, timeout), rbuf, wire, werr) :
        /\ r' = getOptionReply(x.r)
        /\ err' = x.err
        /\ rbuf' = x.rbuf
        /\ wire' = x.wire
        /\ werr' = x.werr
        /\ out' = x.out
        /\ reads' = x.reads
        /\ trace' = x.trace
        /\ op' = getOptionTimeoutOp(x.op)
    /\ cmd' = getOptionTimeoutCmd(filename, escape, timeout)
    /\ UNCHANGED <<Env, hist, other, peer, srv>>

\* A call of a.StreamFile(file, escape, offset...) that returns.
StreamFile(file, escape, offset) ==
    /\ op # "none"
    /\ \E x \in sendMsg(streamFileCmd(file, escape, offset), rbuf, wire, werr) :
        /\ r' = endposReply(x.r)
        /\ err' = x.err
        /\ rbuf' = x.rbuf
        /\ wire' = x.wire
        /\ werr' = x.werr
        /\ out' = x.out
        /\ reads' = x.reads
        /\ trace' = x.trace
        /\ op' = streamFileOp(x.op)
    /\ cmd' = streamFileCmd(file, escape, offset)
    /\ UNCHANGED <<Env, hist, other, peer, srv>>

\* A call of a.GetVariable(name) that returns.
GetVariable(name) ==
    /\ op # "none"
    /\ \E x \in sendMsg(getVariableCmd(name), rbuf, wire, werr) :
        /\ r' = parenReply(x.r)
        /\ err' = x.err
        /\ rbuf' = x.rbuf
        /\ wire' = x.wire
        /\ werr' = x.werr
        /\ out' = x.out
        /\ reads' = x.reads
        /\ trace' = x.trace
        /\ op' = getVariableOp(x.op)
    /\ cmd' = getVariableCmd(name)
    /\ UNCHANGED <<Env, hist, other, peer, srv>>

\* A call of a.GetFullVariable(name, channel...) that returns.
GetFullVariable(name, channel) ==
    /\ op # "none"
    /\ \E x \in sendMsg(getFullVariableCmd(name, channel), rbuf, wire, werr) :
        /\ r' = parenReply(x.r)
        /\ err' = x.err
        /\ rbuf' = x.rbuf
        /\ wire' = x.wire
        /\ werr' = x.werr
        /\ out' = x.out
        /\ reads' = x.reads
        /\ trace' = x.trace
        /\ op' = getFullVariableOp(x.op)
    /\ cmd' = getFullVariableCmd(name, channel)
    /\ UNCHANGED <<Env, hist, other, peer, srv>>

\* A call of a.DatabaseGet(family, key) that returns.
DatabaseGet(family, key) ==
    /\ op # "none"
    /\ \E x \in sendMsg(databaseGetCmd(family, key), rbuf, wire, werr) :
        /\ r' = parenReply(x.r)
        /\ err' = x.err
        /\ rbuf' = x.rbuf
        /\ wire' = x.wire
        /\ werr' = x.werr
        /\ out' = x.out
        /\ reads' = x.reads
        /\ trace' = x.trace
        /\ op' = databaseGetOp(x.op)
    /\ cmd' = databaseGetCmd(family, key)
    /\ UNCHANGED <<Env, hist, other, peer, srv>>

\* A call of a.ReceiveText(timeout) that returns.
ReceiveText(timeout) ==
    /\ op # "none"
    /\ \E x \in sendMsg(receiveTextCmd(timeout), rbuf, wire, werr) :
        /\ r' = parenReply(x.r)
        /\ err' = x.err
        /\ rbuf' = x.rbuf
        /\ wire' = x.wire
        /\ werr' = x.werr
        /\ out' = x.out
        /\ reads' = x.reads
        /\ trace' = x.trace
        /\ op' = receiveTextOp(x.op)
    /\ cmd' = receiveTextCmd(timeout)
    /\ UNCHANGED <<Env, hist, other, peer, srv>>

NextCmd ==
    \/ \E f \in Filenames, e \in Escapes : GetOption(f, e)
    \/ \E f \in Filenames, e \in Escapes, t \in Timeouts : GetOptionTimeout(f, e, <<t>>)
    \/ \E f \in Filenames, e \in Escapes, o \in Offsets : StreamFile(f, e, o)
    \/ \E n \in VarNames : GetVariable(n)
    \/ \E n \in VarNames, c \in Channels : GetFullVariable(n, c)
    \/ \E f \in Families, k \in Keys : DatabaseGet(f, k)
    \/ \E t \in Timeouts : ReceiveText(t)
    \/ ParseResponse
    \/ \E s \in SendCmds : SendMsg(s)

SpecCmd == InitCmd /\ [][NextCmd]_vars

----------------------------------------------------------------------------
(* Vocabulary of the properties *)

\* The last call ran parseResponse.
Called == op \in {"parseResponse", "sendMsg:sent"}

\* The last call ran parseResponse and its read of the status line succeeded.
Parsed == Called /\ reads[1].err = Nil

\* The status line of the last call, without its terminator.
StatusLine == SubSeq(reads[1].data, 1, Len(reads[1].data) - 1)

\* The text of line l before its first space (l has a space).
TokenOf(l) == SubSeq(l, 1, IndexByte(l, SP))

\* The first space of line l exists and is the last character of l.
SpaceLast(l) == IndexByte(l, SP) >= 0 /\ IndexByte(l, SP) = Len(l) - 1

\* The first line of byte stream s, without terminator (s holds a terminator).
FirstLine(s) == SubSeq(s, 1, IndexByte(s, NL))

\* Byte stream s after its first line (s holds a terminator).
AfterLine(s) == SubSeq(s, IndexByte(s, NL) + 2, Len(s))

\* "200 result="
Prefix200 == Result200 \o <<EQ>>

\* The text of l after "200 result=".
Rest200(l) == SubSeq(l, Len(Prefix200) + 1, Len(l))

\* l has the shape `200 result=T` or `200 result=T <rest>`, T and <rest> not empty.
Shape200(l) ==
    /\ HasPrefix(l, Prefix200)
    /\ Rest200(l) # <<>>
    /\ \/ IndexByte(Rest200(l), SP) < 0
       \/ /\ IndexByte(Rest200(l), SP) > 0
          /\ IndexByte(Rest200(l), SP) < Len(Rest200(l)) - 1

\* The result token T of a line of that shape.
ResultToken(l) ==
    IF IndexByte(Rest200(l), SP) < 0 THEN Rest200(l)
    ELSE SubSeq(Rest200(l), 1, IndexByte(Rest200(l), SP))

----------------------------------------------------------------------------
(* C1 *)

\* C1: for every int n (negative values included) the line `200 result=n`
\* parses to Reply{Res: n, Dat: ""} with a nil error.
C1_ResultOnly ==
    \A n \in Ints :
        (Parsed /\ StatusLine = Prefix200 \o Itoa(n))
            => (r = [Res |-> n, Dat |-> <<>>] /\ err = Nil)

C1_Witness ==
    /\ Parsed
    /\ StatusLine = Prefix200 \o Itoa(MinInt)
    /\ r.Res = MinInt

(* C2 *)

\* C2: for every int n and every non-empty payload p the line
\* `200 result=n p` parses to Res = n and Dat = p, exactly the text after the
\* one separating space, with a nil error.
C2_ResultAndPayload ==
    \A n \in Ints :
        LET pre == Prefix200 \o Itoa(n) \o <<SP>>
        IN (Parsed /\ HasPrefix(StatusLine, pre) /\ Len(StatusLine) > Len(pre))
            => /\ r.Res = n
               /\ r.Dat = SubSeq(StatusLine, Len(pre) + 1, Len(StatusLine))
               /\ err = Nil

C2_Witness ==
    /\ Parsed
    /\ r = [Res |-> -12, Dat |-> <<"a", "=", "b", " ", "c">>]
    /\ err = Nil

(* C3 *)

\* C3 as stated: a line whose text before the first space is 510, 511 or 520
\* yields the unknown-command, dead-channel and invalid-syntax error
\* respectively, three distinct values, with the zero Reply.
C3_Original ==
    (Parsed /\ IndexByte(StatusLine, SP) >= 0)
        => /\ TokenOf(StatusLine) = T510 => (err = Err510Response /\ r = EmptyReply)
           /\ TokenOf(StatusLine) = T511 => (err = Err511Response /\ r = EmptyReply)
           /\ TokenOf(StatusLine) = T520 => (err = Err520Response /\ r = EmptyReply)
           /\ Cardinality({Err510Response, Err511Response, Err520Response}) = 3

\* C3 amended: the same, for lines whose first space is not their last character.
C3_StatusErrors ==
    (Parsed /\ IndexByte(StatusLine, SP) >= 0 /\ ~SpaceLast(StatusLine))
        => /\ TokenOf(StatusLine) = T510 => (err = Err510Response /\ r = EmptyReply)
           /\ TokenOf(StatusLine) = T511 => (err = Err511Response /\ r = EmptyReply)
           /\ TokenOf(StatusLine) = T520 => (err = Err520Response /\ r = EmptyReply)
           /\ Cardinality({Err510Response, Err511Response, Err520Response}) = 3

C3_Witness ==
    /\ Parsed
    /\ TokenOf(StatusLine) = T511
    /\ err = Err511Response
    /\ r = EmptyReply

(* C4 *)

\* A step is a returning parseResponse on an input whose first line has the
\* text 520-Invalid before its first space and is followed by a complete line.
Step520Invalid ==
    /\ op' \in {"parseResponse", "sendMsg:sent"}
    /\ IndexByte(rbuf \o wire, NL) >= 0
    /\ IndexByte(FirstLine(rbuf \o wire), SP) >= 0
    /\ TokenOf(FirstLine(rbuf \o wire)) = T520Invalid
    /\ IndexByte(AfterLine(rbuf \o wire), NL) >= 0

\* The step returns the invalid-syntax error and consumes exactly the status
\* line and the documentation line: the input afterwards starts right after
\* the documentation line.
TwoLinesConsumed ==
    /\ err' = Err520Response
    /\ Len(reads') = 2
    /\ reads'[1].data \o reads'[2].data
         = SubSeq(rbuf \o wire, 1, Len(rbuf \o wire) - Len(AfterLine(AfterLine(rbuf \o wire))))
    /\ rbuf' \o wire' = AfterLine(AfterLine(rbuf \o wire))

\* C4 as stated: when the status token is 520-Invalid, parseResponse returns
\* the invalid-syntax error and consumes exactly two lines.
C4_Original == [][Step520Invalid => TwoLinesConsumed]_vars

\* C4 amended: the same, when the space after 520-Invalid is not the last
\* character of the status line.
C4_DocLineConsumed ==
    [][(Step520Invalid /\ ~SpaceLast(FirstLine(rbuf \o wire))) => TwoLinesConsumed]_vars

C4_Witness ==
    /\ Parsed
    /\ TokenOf(StatusLine) = T520Invalid
    /\ err = Err520Response
    /\ Len(reads) = 2
    /\ reads[2].err = Nil
    /\ rbuf \o wire # <<>>

(* C5 *)

\* C5: the bare line HANGUP yields the hangup error, whose message is HANGUP,
\* and no other outcome of parseResponse (malformed or partial line, 510, 511,
\* 520, read failure) yields an error equal to it.
C5_Hangup ==
    Called =>
        /\ (reads[1].err = Nil /\ StatusLine = HANGUP) <=> (err = ErrHangupResponse)
        /\ err = ErrHangupResponse => Error(err) = HANGUP

C5_Witness ==
    /\ Parsed
    /\ StatusLine = HANGUP
    /\ err = ErrHangupResponse
    /\ r = EmptyReply

(* C6 *)

KnownTokens == {T200, T510, T511, T520, T520Invalid}

\* C6: a status line other than HANGUP that is empty, has no space, has its
\* first space as first or last character, or has an unknown status token
\* yields the malformed/partial-response error carrying the line, no Reply.
C6_Malformed ==
    (/\ Parsed
     /\ StatusLine # HANGUP
     /\ \/ StatusLine = <<>>
        \/ IndexByte(StatusLine, SP) < 0
        \/ IndexByte(StatusLine, SP) = 0
        \/ SpaceLast(StatusLine)
        \/ TokenOf(StatusLine) \notin KnownTokens)
        => /\ err = ErrMalformedAGIResponse(StatusLine)
           /\ r = EmptyReply

C6_Witness ==
    /\ Parsed
    /\ SpaceLast(StatusLine)
    /\ TokenOf(StatusLine) = T510
    /\ err = ErrMalformedAGIResponse(StatusLine)

(* C7 *)

\* C7: a line with status token 200 (its first space not its last character)
\* is a success only with the shape `200 result=T` or `200 result=T <rest>`,
\* the literal keyword result right before the first "="; every other line
\* under the 200 prefix yields the malformed-200 error.
C7_Claim ==
    (/\ Parsed
     /\ IndexByte(StatusLine, SP) >= 0
     /\ ~SpaceLast(StatusLine)
     /\ TokenOf(StatusLine) = T200)
        => /\ err = Nil => Shape200(StatusLine)
           /\ ~Shape200(StatusLine) => err.kind = "ErrMalformed200Response"

(* C8 *)

\* C8: when a line `200 result=T` or `200 result=T <rest>` is well formed but
\* T does not convert to an int, the error is the failed-to-parse-200 error
\* wrapping the conversion error, neither the malformed-200 error nor the
\* malformed/partial-response error.
C8_FailedToParse ==
    (Parsed /\ Shape200(StatusLine) /\ Atoi(ResultToken(StatusLine)).err # "nil")
        => /\ err = ErrFailedToParse200Response(ResultToken(StatusLine),
                                                Atoi(ResultToken(StatusLine)).err)
           /\ err.kind \notin {"ErrMalformed200Response", "ErrMalformedAGIResponse"}

C8_Witness ==
    /\ Parsed
    /\ Shape200(StatusLine)
    /\ err.kind = "ErrFailedToParse200Response"
    /\ err.cause = "ErrRange"

(* C9 *)

\* C9: whenever parseResponse or sendMsg returns a non-nil error, the Reply
\* returned with it is the empty Reply.
C9_Claim == (op # "none" /\ err # Nil) => r = EmptyReply

(* C10 *)

\* C10: when the read of the status line fails, parseResponse returns that
\* read error and the empty Reply, reads nothing more, and does not classify
\* the partial data that was read.
C10_ReadError ==
    (Called /\ reads[1].err # Nil)
        => /\ err = reads[1].err
           /\ r = EmptyReply
           /\ Len(reads) = 1

C10_Witness ==
    /\ Called
    /\ reads[1].err = ErrClosed
    /\ reads[1].data = HANGUP
    /\ err = ErrClosed
    /\ r = EmptyReply

----------------------------------------------------------------------------
(* Vocabulary of the properties of the environment parse *)

RECURSIVE SplitLines(_)
\* The complete lines of s without their terminators, and the unterminated
\* text s ends with.
SplitLines(s) ==
    IF Len(s) = 0 THEN [lines |-> <<>>, tail |-> <<>>]
    ELSE IF Len(s) = 1
    THEN IF s[1] = NL THEN [lines |-> << <<>> >>, tail |-> <<>>]
         ELSE [lines |-> <<>>, tail |-> s]
    ELSE LET h  == Len(s) \div 2
             lt == SplitLines(SubSeq(s, 1, h))
             rt == SplitLines(SubSeq(s, h + 1, Len(s)))
         IN IF Len(rt.lines) = 0
            THEN [lines |-> lt.lines, tail |-> lt.tail \o rt.tail]
            ELSE [lines |-> lt.lines \o << lt.tail \o rt.lines[1] >> \o Tail(rt.lines),
                  tail  |-> rt.tail]

\* The environment block at the head of s: its lines, whether a blank line
\* ends it (otherwise the end of the stream does), and what follows the
\* blank line.
BlockOf(s) ==
    LET sp     == SplitLines(s)
        blanks == {j \in 1..Len(sp.lines) : sp.lines[j] = <<>>}
    IN IF blanks = {}
       THEN [lines |-> sp.lines, blank |-> FALSE, after |-> <<>>]
       ELSE LET b == CHOOSE j \in blanks : \A k \in blanks : j <= k
            IN [lines |-> SubSeq(sp.lines, 1, b - 1), blank |-> TRUE,
                after |-> Slice(s, Len(Flatten(SubSeq(sp.lines, 1, b))), Len(s))]

\* l is a line `agi_<key>: <value>` whose key with its prefix has between
\* 8 and 18 characters.
WellFormedLine(l) ==
    LET c == IndexByte(l, COLON)
    IN /\ HasPrefix(l, AgiPrefix)
       /\ c >= 8
       /\ c <= 18
       /\ c + 2 <= Len(l)
       /\ l[c + 2] = SP

\* The key of a well-formed line without its prefix, and the text after ": ".
LineKey(l) == Slice(l, 4, IndexByte(l, COLON))

LineValue(l) == Slice(l, IndexByte(l, COLON) + 2, Len(l))

AllWellFormed(ls) == \A j \in 1..Len(ls) : WellFormedLine(ls[j])

DistinctKeys(ls) == Cardinality({LineKey(ls[j]) : j \in 1..Len(ls)}) = Len(ls)

\* The map m holds the key and the value of every line of ls.
HoldsLines(m, ls) ==
    /\ ~m.isNil
    /\ \A j \in 1..Len(ls) :
         /\ LineKey(ls[j]) \in DOMAIN m.kv
         /\ m.kv[LineKey(ls[j])] = LineValue(ls[j])

\* The step is a call of Init, which runs parseEnv on the input rbuf \o wire.
InitStep == op' = "Init"

----------------------------------------------------------------------------
(* C11 *)

NetworkScript == <<"n", "e", "t", "w", "o", "r", "k", "_", "s", "c", "r", "i", "p", "t">>

----------------------------------------------------------------------------
(* C12 *)

\* The message of the incomplete-environment error for k entries.
IncompleteText(k) ==
    <<"i", "n", "c", "o", "m", "p", "l", "e", "t", "e", " ", "e", "n", "v", "i", "r", "o", "n", "m", "e", "n", "t", " ", "w", "i", "t", "h", " ", "o", "n", "l", "y", " ">>
    \o Itoa(k) \o <<" ", "e", "n", "v", " ", "v", "a", "r", "s">>

\* C12: when the block has fewer than 18 lines before its blank line or the
\* end of the stream, all of them well-formed, parseEnv returns the
\* incomplete-environment error and Env is nil.
C12_Incomplete ==
    [][InitStep =>
        LET b == BlockOf(rbuf \o wire)
        IN (Len(b.lines) < 18 /\ AllWellFormed(b.lines))
           => /\ err'.kind = "fmt.Errorf"
              /\ err'.text = IncompleteText(Cardinality({LineKey(b.lines[j]) : j \in 1..Len(b.lines)}))
              /\ Env'.isNil]_vars

\* Init has read 17 well-formed lines and a blank line and reports 17 entries.
C12_Witness ==
    /\ op = "Init"
    /\ Len(reads) = 18
    /\ reads[18].data = <<NL>>
    /\ err # Nil
    /\ err.text = IncompleteText(17)
    /\ Env.isNil

----------------------------------------------------------------------------
(* C13 *)

\* The first colon of l is at an index below 8 (or absent), above 18, or is
\* the last character of l.
BadColon(l) ==
    LET c == IndexByte(l, COLON)
    IN c < 8 \/ c > 18 \/ c = Len(l) - 1

MalformedText(l) ==
    <<"m", "a", "l", "f", "o", "r", "m", "e", "d", " ", "e", "n", "v", "i", "r", "o", "n", "m", "e", "n", "t", " ", "i", "n", "p", "u", "t", ":", " ">>
    \o l

\* C13: when parseEnv reads a line that is not blank and whose first colon
\* is at an index below 8 (or absent), above 18, or last in the line, it
\* returns the malformed-environment error quoting that line, reads no
\* further line, and Env is nil.
C13_Claim ==
    [][InitStep =>
        \A j \in 1..Len(reads') :
            LET l == stripNewline(reads'[j].data)
            IN (reads'[j].err = Nil /\ l # <<>> /\ BadColon(l))
               => /\ err'.kind = "fmt.Errorf"
                  /\ err'.text = MalformedText(l)
                  /\ j = Len(reads')
                  /\ Env'.isNil]_vars

----------------------------------------------------------------------------
(* C14 *)

\* C14: if the stream ends after at least 18 well-formed lines without a
\* blank line, parseEnv returns no error and Env holds the parsed entries.
C14_Claim ==
    [][InitStep =>
        LET b == BlockOf(rbuf \o wire)
        IN (~b.blank /\ Len(b.lines) >= 18 /\ AllWellFormed(b.lines)
            /\ DistinctKeys(b.lines))
           => /\ err' = Nil
              /\ ~Env'.isNil
              /\ MapLen(Env') >= 18]_vars

----------------------------------------------------------------------------
(* Vocabulary of the properties of the dispatcher *)

\* The step is a call of sendMsg.
SendStep == op' \in {"sendMsg:buffered", "sendMsg:write", "sendMsg:flush", "sendMsg:sent"}

\* The last call was a call of sendMsg.
SendCalled == op \in {"sendMsg:buffered", "sendMsg:write", "sendMsg:flush", "sendMsg:sent"}

\* s with every carriage return and every newline replaced by one space.
Sanitized(s) == [i \in 1..Len(s) |-> IF s[i] = CR \/ s[i] = NL THEN SP ELSE s[i]]

\* The calls on a.buf of a send that writes, flushes and then reads n lines.
PairedCalls(n) == <<"Buffered", "WriteString", "Flush">> \o [i \in 1..n |-> "ReadBytes"]

\* The step wrote the command line once, flushed, and then ran parseResponse
\* once on the input, whose result it returns.
Paired ==
    /\ out' = Sanitized(cmd') \o <<NL>>
    /\ trace' = PairedCalls(Len(reads'))
    /\ \E x \in parseResponse(rbuf, wire) :
         /\ r' = x.r
         /\ err' = x.err
         /\ reads' = x.reads
         /\ rbuf' = x.rbuf
         /\ wire' = x.wire

----------------------------------------------------------------------------
(* C15 *)

----------------------------------------------------------------------------
(* C16 *)

\* C16, as stated: in every send call that passes the buffered-input check
\* the command line is written once and flushed, then parseResponse runs
\* once and its result is returned, with no other read or write.
C16_Original == [][(SendStep /\ Len(rbuf) = 0) => Paired]_vars

\* C16, amended: in every send call that passes the buffered-input check
\* and in which neither the write nor the flush fails, the command line is
\* written once and flushed, only then parseResponse runs, exactly once, its
\* result is returned unchanged, and no other read or write occurs.
C16_WriteThenRead == [][(SendStep /\ Len(rbuf) = 0 /\ werr' = Nil) => Paired]_vars

\* A send wrote its line, flushed, and read the two lines of a 520-Invalid reply.
C16_Witness ==
    /\ op = "sendMsg:sent"
    /\ out = Sanitized(cmd) \o <<NL>>
    /\ trace = PairedCalls(2)
    /\ err = Err520Response

----------------------------------------------------------------------------
(* C17 *)

\* C17: the bytes a send writes are the command with every carriage return
\* and newline replaced by a space, followed by one newline: what reaches
\* the transport is that line, or a part of it when the flush fails, so it
\* holds no carriage return and a newline only as the last byte of the line.
C17_Sanitized ==
    SendCalled =>
        LET line == Sanitized(cmd) \o <<NL>>
        IN /\ Len(out) <= Len(line)
           /\ out = Slice(line, 0, Len(out))
           /\ op = "sendMsg:sent" => out = line
           /\ \A i \in 1..Len(out) : out[i] # CR
           /\ \A i \in 1..Len(out) : out[i] = NL => i = Len(cmd) + 1

\* A command holding a carriage return and a newline went out as one line.
C17_Witness ==
    /\ op = "sendMsg:sent"
    /\ cmd = <<"\r", "B", "\n", "C">>
    /\ out = <<" ", "B", " ", "C", "\n">>

----------------------------------------------------------------------------
(* C18 *)

\* C18: when the write or the flush of a send fails, the send returns that
\* failure with the empty Reply and reads nothing from the input.
C18_WriteFailure ==
    [][(SendStep /\ Len(rbuf) = 0 /\ werr' # Nil) =>
        /\ err' = werr'
        /\ r' = EmptyReply
        /\ reads' = <<>>
        /\ rbuf' = rbuf
        /\ wire' = wire]_vars

\* A send failed in its write, after an earlier flush had failed, with input pending.
C18_Witness ==
    /\ op = "sendMsg:write"
    /\ err = ErrBrokenPipe
    /\ r = EmptyReply
    /\ reads = <<>>
    /\ Len(wire) > 0

----------------------------------------------------------------------------
(* C19 *)

\* The step is a call of GetOption.
GetOptionStep ==
    op' \in {"GetOption:buffered", "GetOption:write", "GetOption:flush", "GetOption:sent"}

\* C19: after Init succeeded on an input holding the block, its blank line
\* and then the complete reply line `200 result=1 endpos=1234`, the first
\* command, a GetOption on a transport that takes the write, is written to
\* the output and returns Res = 1 and Dat = `1234` with no error.
C19_Claim ==
    [][(/\ op = "Init"
        /\ err = Nil
        /\ reads[Len(reads)].data = <<NL>>
        /\ HasPrefix(rbuf \o wire, Reply1234 \o <<NL>>)
        /\ GetOptionStep
        /\ werr' = Nil)
       => /\ out' = Sanitized(cmd') \o <<NL>>
          /\ err' = Nil
          /\ r' = [Res |-> 1, Dat |-> <<"1", "2", "3", "4">>]]_vars

----------------------------------------------------------------------------
(* C20 *)

MalformedPrefix ==
    <<"m", "a", "l", "f", "o", "r", "m", "e", "d", " ", "e", "n", "v", "i", "r", "o", "n", "m", "e", "n", "t", " ", "i", "n", "p", "u", "t", ":", " ">>

\* The bytes of the lines read by the last call.
BytesRead(rds) == Flatten([j \in 1..Len(rds) |-> stripNewline(rds[j].data)])

\* C20: parseEnv consumes exactly the lines of the block: when it succeeds
\* on a block that a blank line ends, the input is left at the first byte
\* after that blank line, and when it aborts on a malformed line the input
\* is left right after that line.
C20_Claim ==
    [][InitStep =>
        LET s == rbuf \o wire
            b == BlockOf(s)
        IN /\ (err' = Nil /\ b.blank) => rbuf' \o wire' = b.after
           /\ HasPrefix(err'.text, MalformedPrefix)
              => /\ err'.text = MalformedText(stripNewline(reads'[Len(reads')].data))
                 /\ s = BytesRead(reads') \o rbuf' \o wire']_vars

----------------------------------------------------------------------------
(* C21 *)

\* The text `GET OPTION <filename> "<escape>"` and a newline.
OptionLine(filename, escape) ==
    <<"G", "E", "T", " ", "O", "P", "T", "I", "O", "N", " ">> \o filename \o <<SP>> \o DQUOTE \o escape \o DQUOTE \o <<NL>>

\* C21: a call of GetOption(filename, escape) without a timeout that writes
\* its command writes exactly `GET OPTION <filename> "<escape>"` followed by
\* a newline.
C21_Claim ==
    [][\A f \in Filenames, e \in Escapes :
          (GetOption(f, e) /\ op' = "GetOption:sent") => out' = OptionLine(f, e)]_vars

----------------------------------------------------------------------------
(* C22 *)

\* A step is a call of GetOption or StreamFile that wrote its command and
\* ran parseResponse.
EndposStep == op' \in {"GetOption:sent", "GetOptionTimeout:sent", "StreamFile:sent"}

\* Reply rep is reply raw with one leading endpos= taken off its payload,
\* or raw itself when its payload does not start with endpos=.
EndposStripped(rep, raw) ==
    /\ rep.Res = raw.Res
    /\ IF HasPrefix(raw.Dat, Endpos) THEN Endpos \o rep.Dat = raw.Dat ELSE rep.Dat = raw.Dat

\* C22: GetOption and StreamFile return the reply parseResponse made of the
\* peer's line, with one leading endpos= removed from the payload; a payload
\* that does not start with endpos= and the result code are returned as they
\* are.
C22_Endpos ==
    [][EndposStep =>
          \E x \in parseResponse(rbuf, wire) :
              /\ x.reads = reads'
              /\ x.err = err'
              /\ EndposStripped(r', x.r)]_vars

C22_Witness ==
    /\ op = "StreamFile:sent"
    /\ StatusLine = <<"2", "0", "0", " ", "r", "e", "s", "u", "l", "t", "=", "1", " ", "e", "n", "d", "p", "o", "s", "=", "e", "n", "d", "p", "o", "s", "=", "5">>
    /\ r = [Res |-> 1, Dat |-> <<"e", "n", "d", "p", "o", "s", "=", "5">>]

----------------------------------------------------------------------------
(* C23 *)

\* A step is a call of GetVariable, GetFullVariable, DatabaseGet or
\* ReceiveText that wrote its command and ran parseResponse.
ParenStep ==
    op' \in {"GetVariable:sent", "GetFullVariable:sent", "DatabaseGet:sent", "ReceiveText:sent"}

\* "200 result=1 ("
ParenPrefix == Prefix200 \o Itoa(1) \o <<SP>> \o LPAREN

\* Line l is `200 result=1 (v)` for some text v.
ParenLine(l) ==
    /\ HasPrefix(l, ParenPrefix)
    /\ Len(l) > Len(ParenPrefix)
    /\ l[Len(l)] = ")"

\* The text v of such a line.
ParenValue(l) == SubSeq(l, Len(ParenPrefix) + 1, Len(l) - 1)

\* C23: when the peer answers GetVariable, GetFullVariable, DatabaseGet or
\* ReceiveText with the line `200 result=1 (v)`, the call returns no error,
\* Res = 1 and Dat = v, whatever v is: one outer pair of parentheses is
\* removed and nothing else.
C23_Parens ==
    [][(/\ ParenStep
        /\ reads'[1].err = Nil
        /\ ParenLine(stripNewline(reads'[1].data)))
       => /\ err' = Nil
          /\ r' = [Res |-> 1, Dat |-> ParenValue(stripNewline(reads'[1].data))]]_vars

C23_Witness ==
    /\ op = "GetVariable:sent"
    /\ StatusLine = <<"2", "0", "0", " ", "r", "e", "s", "u", "l", "t", "=", "1", " ", "(", "(", "a", ")", ")">>
    /\ r = [Res |-> 1, Dat |-> <<"(", "a", ")">>]

\* The same for the value that is the empty text.
C23_WitnessEmpty ==
    /\ op = "ReceiveText:sent"
    /\ StatusLine = <<"2", "0", "0", " ", "r", "e", "s", "u", "l", "t", "=", "1", " ", "(", ")">>
    /\ r = [Res |-> 1, Dat |-> <<>>]

----------------------------------------------------------------------------
(* C27 *)

\* C27: parseEnv reads at most 150 lines, whatever the input is: a call of
\* Init that returns has made at most envMax calls of ReadBytes.
C27_Claim == [][InitStep => Len(reads') <= envMax]_vars

----------------------------------------------------------------------------
(* C25 *)

\* C25: once Init has returned, no call of parseResponse, of sendMsg or of a
\* command wrapper modifies Env.
C25_EnvKept == [][Env' = Env]_vars

\* After Init a command was answered with HANGUP by parseResponse, and Env
\* still holds the environment Init parsed.
C25_Witness ==
    /\ op = "parseResponse"
    /\ err = ErrHangupResponse
    /\ ~Env.isNil
    /\ MapLen(Env) = envMin
    /\ NetworkScript \in DOMAIN Env.kv

----------------------------------------------------------------------------
(* The history of a session *)

\* Lines of the peer in a session whose history is kept.
FrameLines ==
    {<<"2", "0", "0", " ", "r", "e", "s", "u", "l", "t", "=", "0">>,
     <<"H", "A", "N", "G", "U", "P">>,
     <<"5", "2", "0", "-", "I", "n", "v", "a", "l", "i", "d", " ", "x">>,
     <<"5", "2", "0", "-", "I", "n", "v", "a", "l", "i", "d", " ">>,
     <<"y">>}

\* Streams of complete lines.
FrameStreams == {Flatten(ls) : ls \in UNION {[1..n -> FrameLines] : n \in 0..MaxLines}}

\* Calls of parseResponse followed in a history: one more than the lines the
\* peer sends, so that the last call finds the input at its end.
MaxCalls == MaxLines + 1

\* The bytes the reads rds returned, in order.
RECURSIVE BytesGot(_)
BytesGot(rds) == IF rds = <<>> THEN <<>> ELSE rds[1].data \o BytesGot(Tail(rds))

\* The history of a session bound to a transport on which the peer sends text.
NewHist(text) ==
    [kept |-> TRUE,
     text |-> text,      \* every byte the peer sends
     got |-> <<>>,       \* the bytes ReadBytes returned, in the order of the calls
     calls |-> 0,        \* calls of parseResponse that returned
     invalid |-> 0,      \* those whose status token was 520-Invalid
     doc |-> 0,          \* those of them whose status line holds text after the space and is followed by a line
     ok |-> TRUE,        \* none of them returned a read error
     hangup |-> FALSE]   \* a send has returned ErrHangupResponse

\* The status line read by rds has the text 520-Invalid before its first space.
IsInvalid(rds) ==
    /\ rds[1].err = Nil
    /\ IndexByte(stripNewline(rds[1].data), SP) >= 0
    /\ TokenOf(stripNewline(rds[1].data)) = T520Invalid

\* The history after a call of parseResponse on the input text that made
\* the reads rds and returned e.
Counted(h, text, rds, e) ==
    [h EXCEPT !.got = @ \o BytesGot(rds),
              !.calls = @ + 1,
              !.invalid = @ + (IF IsInvalid(rds) THEN 1 ELSE 0),
              !.doc = @ + (IF /\ IsInvalid(rds)
                              /\ ~SpaceLast(stripNewline(rds[1].data))
                              /\ IndexByte(AfterLine(text), NL) >= 0
                           THEN 1 ELSE 0),
              !.ok = @ /\ e \notin ReadErrors]

InitFrame ==
    /\ rbuf = <<>>
    /\ wire \in FrameStreams
    /\ werr = Nil
    /\ out = <<>>
    /\ r = EmptyReply
    /\ err = Nil
    /\ op = "none"
    /\ reads = <<>>
    /\ Env = NewEnv
    /\ cmd = <<>>
    /\ trace = <<>>
    /\ hist = NewHist(wire)
    /\ other = NoSession
    /\ peer = NoPeer
    /\ srv = NoServer

\* A direct call of a.parseResponse() that returns, in a session whose
\* history is kept.
HistParse ==
    /\ hist.calls < MaxCalls
    /\ ParseResponseCall
    /\ hist' = Counted(hist, rbuf \o wire, reads', err')
    /\ UNCHANGED <<other, peer, srv>>

NextFrame == HistParse

SpecFrame == InitFrame /\ [][NextFrame]_vars

InitHangup ==
    /\ rbuf = <<>>
    /\ wire \in SendStreams
    /\ werr = Nil
    /\ out = <<>>
    /\ r = EmptyReply
    /\ err = Nil
    /\ op = "none"
    /\ reads = <<>>
    /\ Env = NewEnv
    /\ cmd = <<>>
    /\ trace = <<>>
    /\ hist = NewHist(wire)
    /\ other = NoSession
    /\ peer = NoPeer
    /\ srv = NoServer

\* A call of a.sendMsg(s) that returns, in a session whose history is kept.
HistSend(s) ==
    /\ hist.calls < MaxCalls
    /\ SendMsgCall(s)
    /\ hist' = IF op' = "sendMsg:sent"
               THEN [Counted(hist, rbuf \o wire, reads', err')
                        EXCEPT !.hangup = @ \/ err' = ErrHangupResponse]
               ELSE [hist EXCEPT !.got = @ \o BytesGot(reads')]
    /\ UNCHANGED <<other, peer, srv>>

NextHangup == \E s \in Cmds : HistSend(s)

SpecHangup == InitHangup /\ [][NextHangup]_vars

----------------------------------------------------------------------------
(* C28 *)

\* C28: once a send has returned the hangup error, no later send of the
\* session writes a command to the transport.
C28_Claim == [][(hist.hangup /\ SendStep) => out' = <<>>]_vars

----------------------------------------------------------------------------
(* C30 *)

\* The number of line terminators in s.
CountLines(s) == Cardinality({i \in 1..Len(s) : s[i] = NL})

\* The bytes of the peer that are neither in the buffer nor still to fetch.
Consumed == SubSeq(hist.text, 1, Len(hist.text) - Len(rbuf \o wire))

\* Exactly n lines have been consumed, in the order of their arrival: the
\* reads returned the first n lines of the peer and the input is what
\* follows them.
LinesConsumed(n) ==
    /\ Consumed \o rbuf \o wire = hist.text
    /\ hist.got = Consumed
    /\ CountLines(Consumed) = n
    /\ Consumed = <<>> \/ Consumed[Len(Consumed)] = NL

\* C30 as stated: after k calls of parseResponse that returned without a
\* read error on a stream of complete lines, exactly k + d lines have been
\* consumed in arrival order, d being the number of the calls whose status
\* token was 520-Invalid.
C30_Original == hist.ok => LinesConsumed(hist.calls + hist.invalid)

\* C30 amended: the same, d being the number of the calls whose status
\* line was 520-Invalid, a space and further text, and was followed by
\* another line.
C30_Framing == hist.ok => LinesConsumed(hist.calls + hist.doc)

\* A call has returned on a 520-Invalid line and has consumed it and its
\* documentation line.
C30_Witness ==
    /\ op = "parseResponse"
    /\ hist.ok
    /\ hist.calls = 1
    /\ hist.doc = 1
    /\ CountLines(Consumed) = 2
    /\ rbuf \o wire = <<>>

----------------------------------------------------------------------------
(* Two sessions *)

\* What the peers of two sessions send after the blank line.
TwoTails ==
    {<<"H", "A", "N", "G", "U", "P", "\n">>,
     <<"2", "0", "0", " ", "r", "e", "s", "u", "l", "t", "=", "1", " ", "a", "\n">>,
     <<"2", "0", "0", " ", "r", "e", "s">>}

TwoStreams == {Flatten(EnvLines(envMin)) \o <<NL>> \o t : t \in TwoTails}

\* The Session New() returns, bound to a transport on which the peer sends w.
NewSession(w) ==
    [made |-> TRUE, rbuf |-> <<>>, wire |-> w, werr |-> Nil, out |-> <<>>,
     r |-> EmptyReply, err |-> Nil, op |-> "none", reads |-> <<>>, Env |-> NewEnv,
     cmd |-> <<>>, trace |-> <<>>]

\* The first session as a Session value.
Self ==
    [made |-> TRUE, rbuf |-> rbuf, wire |-> wire, werr |-> werr, out |-> out,
     r |-> r, err |-> err, op |-> op, reads |-> reads, Env |-> Env,
     cmd |-> cmd, trace |-> trace]

\* Session S after a call of S.Init(rw) that returns.
InitCalls(S) ==
    {[S EXCEPT !.Env = x.Env, !.err = x.err, !.rbuf = x.rbuf, !.wire = x.wire,
               !.reads = x.reads, !.trace = readCalls(Len(x.reads)), !.op = "Init",
               !.r = EmptyReply, !.out = <<>>, !.cmd = <<>>]
     : x \in {y \in parseEnv(S.rbuf, S.wire, S.Env) : ~y.panic}}

\* Session S after a call of S.parseResponse() that returns.
ParseCalls(S) ==
    {[S EXCEPT !.r = x.r, !.err = x.err, !.rbuf = x.rbuf, !.wire = x.wire,
               !.reads = x.reads, !.op = "parseResponse", !.out = <<>>, !.cmd = <<>>,
               !.trace = readCalls(Len(x.reads))]
     : x \in parseResponse(S.rbuf, S.wire)}

\* Session S after a call of S.sendMsg(s) that returns.
SendCalls(S, s) ==
    {[S EXCEPT !.r = x.r, !.err = x.err, !.rbuf = x.rbuf, !.wire = x.wire,
               !.werr = x.werr, !.out = x.out, !.reads = x.reads, !.trace = x.trace,
               !.op = x.op, !.cmd = s]
     : x \in sendMsg(s, S.rbuf, S.wire, S.werr)}

\* Session S after one call that returns: Init first, then parseResponse
\* and sendMsg.
Calls(S) ==
    IF S.op = "none" THEN InitCalls(S)
    ELSE ParseCalls(S) \cup UNION {SendCalls(S, s) : s \in Cmds}

InitTwo ==
    /\ rbuf = <<>>
    /\ wire \in TwoStreams
    /\ werr = Nil
    /\ out = <<>>
    /\ r = EmptyReply
    /\ err = Nil
    /\ op = "none"
    /\ reads = <<>>
    /\ Env = NewEnv
    /\ cmd = <<>>
    /\ trace = <<>>
    /\ hist = NoHist
    /\ other \in {NewSession(w) : w \in TwoStreams}
    /\ peer = NoPeer
    /\ srv = NoServer

\* A call on the second session whose Init stores the environment in a map
\* that the first session uses too.
OtherCallSharedEnv ==
    /\ other' \in Calls(other)
    /\ Env' = other'.Env
    /\ UNCHANGED <<rbuf, wire, werr, out, r, err, op, reads, cmd, trace, hist, peer, srv>>

\* A call on the second session that returns.
OtherCall ==
    /\ other' \in Calls(other)
    /\ UNCHANGED <<rbuf, wire, werr, out, r, err, op, reads, Env, cmd, trace, hist, peer, srv>>

NextTwo ==
    \/ InitSession
    \/ op # "none" /\ ParseResponse
    \/ op # "none" /\ \E s \in Cmds : SendMsg(s)
    \/ OtherCall

SpecTwo == InitTwo /\ [][NextTwo]_vars

----------------------------------------------------------------------------
(* C24 *)

\* The two sessions hold the same text: the same bytes are in the buffer
\* or still to fetch, however they are split between the two.
SameText == other.made /\ other.op # "none" /\ rbuf \o wire = other.rbuf \o other.wire

----------------------------------------------------------------------------
(* C26 *)

\* C26: sessions share no mutable state.  In every interleaving of the
\* calls of two sessions bound to two transports, a call changes the
\* session it is made on and nothing of the other, and what it does to its
\* session (Env, input position, bytes written, results) is what the call
\* does to that session alone.
C26_Isolated ==
    [][/\ (Self' # Self) => (other' = other /\ Self' \in Calls(Self))
       /\ (other' # other) => (Self' = Self /\ other' \in Calls(other))]_vars

\* Both sessions have made their Init and a later call, with different
\* results: the first was told HANGUP, the second got a reply.
C26_Witness ==
    /\ op = "sendMsg:sent"
    /\ err = ErrHangupResponse
    /\ MapLen(Env) = envMin
    /\ other.made
    /\ other.op = "parseResponse"
    /\ other.r = [Res |-> 1, Dat |-> <<"a">>]
    /\ MapLen(other.Env) = envMin

----------------------------------------------------------------------------
(* A session and its peer *)

\* Commands the caller sends in a session that is followed with its peer.
MaxCmds == 3

\* The tag of a line the peer sends without a command to answer.
Unsolicited == 0

\* No line of the peer went into the result of the last call.
NoLine == -1

\* The peer at the start: nothing received, nothing sent.
NewPeer ==
    [followed |-> TRUE,
     inbox |-> <<>>,     \* the commands received and not yet answered, by number
     tags |-> <<>>,      \* for each line sent and not yet consumed, the command it answers
     hung |-> FALSE,     \* HANGUP has been sent
     cur |-> 0,          \* the number of the last command handed to sendMsg
     from |-> NoLine]    \* the tag of the line the last result was made from

\* The reply of the peer to command number n.
ReplyFor(n) == Result200 \o <<EQ>> \o Itoa(n)

InitPeer ==
    /\ rbuf = <<>>
    /\ wire = <<>>
    /\ werr = Nil
    /\ out = <<>>
    /\ r = EmptyReply
    /\ err = Nil
    /\ op = "none"
    /\ reads = <<>>
    /\ Env = NewEnv
    /\ cmd = <<>>
    /\ trace = <<>>
    /\ hist = NoHist
    /\ other = NoSession
    /\ peer = NewPeer
    /\ srv = NoServer

\* The beginning of a call of a.sendMsg(s), up to its return or to the
\* point where the command is written and flushed and the call waits in
\* parseResponse for a line.  A call that finds the beginning of a line
\* buffered waits for the rest of it.
SendBegin(s) ==
    /\ op # "sendMsg:await"
    /\ peer.cur < MaxCmds
    /\ \/ \E x \in sendMsg(s, rbuf, wire, werr) :
             /\ x.op # "sendMsg:sent"
             /\ (x.op = "sendMsg:buffered") => IndexByte(rbuf \o wire, NL) >= 0
             /\ r' = x.r
             /\ err' = x.err
             /\ rbuf' = x.rbuf
             /\ wire' = x.wire
             /\ werr' = x.werr
             /\ out' = x.out
             /\ reads' = x.reads
             /\ trace' = x.trace
             /\ op' = x.op
             /\ peer' = IF x.op = "sendMsg:buffered"
                        THEN [peer EXCEPT !.cur = @ + 1, !.from = Head(peer.tags),
                                          !.tags = Tail(@)]
                        ELSE [peer EXCEPT !.cur = @ + 1, !.from = NoLine]
       \/ /\ ~hasBuffered(rbuf)
          /\ werr = Nil
          /\ \E f \in Flush(wireLine(s)) :
                /\ ~flushFailed(f)
                /\ out' = f.out
                /\ werr' = f.err
          /\ r' = EmptyReply
          /\ err' = Nil
          /\ reads' = <<>>
          /\ trace' = <<"Buffered", "WriteString", "Flush">>
          /\ op' = "sendMsg:await"
          /\ peer' = [peer EXCEPT !.cur = @ + 1, !.from = NoLine,
                                  !.inbox = Append(@, peer.cur + 1)]
          /\ UNCHANGED <<rbuf, wire>>
    /\ cmd' = s
    /\ UNCHANGED <<Env, hist, other, srv>>

\* The end of a call of a.sendMsg(s) that has written its command:
\* parseResponse returns once a line of the peer is there.
SendEnd ==
    /\ op = "sendMsg:await"
    /\ IndexByte(rbuf \o wire, NL) >= 0
    /\ \E x \in parseResponse(rbuf, wire) :
          /\ r' = x.r
          /\ err' = x.err
          /\ rbuf' = x.rbuf
          /\ wire' = x.wire
          /\ reads' = x.reads
          /\ trace' = trace \o readCalls(Len(x.reads))
          /\ peer' = [peer EXCEPT !.from = Head(peer.tags),
                                  !.tags = SubSeq(@, Len(x.reads) + 1, Len(@))]
    /\ op' = "sendMsg:sent"
    /\ UNCHANGED <<werr, out, cmd, Env, hist, other, srv>>

\* The peer answers the oldest command it has not answered yet.
PeerReply ==
    /\ peer.inbox # <<>>
    /\ wire' = wire \o ReplyFor(Head(peer.inbox)) \o <<NL>>
    /\ peer' = [peer EXCEPT !.inbox = Tail(@), !.tags = Append(@, Head(peer.inbox))]
    /\ UNCHANGED <<rbuf, werr, out, r, err, op, reads, Env, cmd, trace, hist, other, srv>>

\* The channel is hung up: the peer sends HANGUP, whatever the session is
\* doing.
PeerHangup ==
    /\ ~peer.hung
    /\ wire' = wire \o HANGUP \o <<NL>>
    /\ peer' = [peer EXCEPT !.hung = TRUE, !.tags = Append(@, Unsolicited)]
    /\ UNCHANGED <<rbuf, werr, out, r, err, op, reads, Env, cmd, trace, hist, other, srv>>

NextPeer ==
    \/ \E s \in Cmds : SendBegin(s)
    \/ SendEnd
    \/ PeerReply
    \/ PeerHangup

SpecPeer == InitPeer /\ [][NextPeer]_vars

----------------------------------------------------------------------------
(* C29 *)

\* A step is the return of a send that consumed a line of the peer.
LineReturned ==
    /\ op' \in {"sendMsg:sent", "sendMsg:buffered"}
    /\ Len(peer'.tags) < Len(peer.tags)

\* C29: in every interleaving of the peer's output and the calls of the
\* session, the result a send returns for a command is made from the line
\* the peer sent in answer to that command, or is an error made from an
\* unsolicited line; it is never made from the reply to an earlier command.
C29_Claim ==
    [][LineReturned =>
          \/ peer'.from = peer'.cur
          \/ peer'.from = Unsolicited /\ err' # Nil]_vars

----------------------------------------------------------------------------
(* C32 *)

\* The lines that consist of just the terminator.
BlankLines == {<<NL>>, <<CR, NL>>}

\* Line l (without its terminator) is an entry of map m: its text between
\* the 4-character prefix and the first colon is a key of m.
StoredIn(m, l) ==
    /\ ~m.isNil
    /\ IndexByte(l, COLON) >= 4
    /\ LineKey(l) \in DOMAIN m.kv

\* C32: parseEnv ends the block successfully only at a line that is just
\* the terminator or at the end of the stream: when it returns no error,
\* every other line it read is stored as an entry.
C32_Claim ==
    [][(InitStep /\ err' = Nil) =>
          \A j \in 1..Len(reads') :
              (reads'[j].err = Nil /\ reads'[j].data \notin BlankLines)
                  => StoredIn(Env', stripNewline(reads'[j].data))]_vars


----------------------------------------------------------------------------
(* C33 *)

\* The lines a successful call of parseEnv stored: the reads that were not
\* the end of the block, without their terminator.
AcceptedLines(rs) ==
    LET idx == {j \in 1..Len(rs) : rs[j].err = Nil /\ Len(rs[j].data) > 2}
    IN [j \in idx |-> stripNewline(rs[j].data)]

\* Line l is its 4-character prefix, the key k, `: ` and the value v.
Recomposes(l, k, v) ==
    /\ Len(l) >= 4
    /\ l = Slice(l, 0, 4) \o k \o <<COLON, SP>> \o v

\* C33: when parseEnv returns no error, every line it accepted is its
\* 4-character prefix, a stored key, `: ` and the value stored under that
\* key (for a key that occurs on several lines, the last of them).
C33_Claim ==
    [][(InitStep /\ err' = Nil) =>
          LET ls == AcceptedLines(reads')
          IN \A j \in DOMAIN ls :
                (\A i \in DOMAIN ls : i > j => LineKey(ls[i]) # LineKey(ls[j]))
                    => /\ ~Env'.isNil
                       /\ \E k \in DOMAIN Env'.kv : Recomposes(ls[j], k, Env'.kv[k])]_vars


----------------------------------------------------------------------------
(* C34 *)

\* C34: a malformed-200 error carries the complete status line of the call,
\* without its terminator.
C34_Claim ==
    (Parsed /\ err.kind = "ErrMalformed200Response") => err.text = StatusLine


----------------------------------------------------------------------------
(* C35 *)

\* The last call of sendMsg found buffered data and returned the line it
\* read as the error, without writing.
BufferedPath == op = "sendMsg:buffered"

\* The line the buffered path consumed, as ReadBytes returned it.
BufferedLine == reads[1].data

\* C35: a complete line HANGUP consumed by the buffered check of sendMsg
\* gives the error value ErrHangupResponse, as it does in parseResponse.
C35_Claim ==
    (BufferedPath /\ reads[1].err = Nil /\ isHangup(stripNewline(BufferedLine)))
        => err = ErrHangupResponse


----------------------------------------------------------------------------
(* C36 *)

\* The content of a line as ReadBytes returned it: d without the newline
\* that ends it, all of d when the stream ended before a newline.
LineContent(d) ==
    IF Len(d) > 0 /\ d[Len(d)] = NL THEN Slice(d, 0, Len(d) - 1) ELSE d

\* C36: on the buffered path of sendMsg the message of the returned error is
\* the content of the consumed line.
C36_Claim == BufferedPath => err.text = LineContent(BufferedLine)


----------------------------------------------------------------------------
(* C37 *)

\* The Go slice expression s[lo:hi] is within s.
InRange(s, lo, hi) == 0 <= lo /\ lo <= hi /\ hi <= Len(s)

\* The reads of the last call of parseEnv whose line went past the test for
\* the end of the block, by their position.
PastBlockTest == {j \in 1..Len(reads) : reads[j].err = Nil /\ ~endsBlock(reads[j].data)}

\* The last call of parseEnv gave up at the line of read j.
RejectedAt(j) ==
    /\ j = Len(reads)
    /\ HasPrefix(err.text, MalformedPrefix)
    /\ err.kind = "fmt.Errorf"

\* The slice expressions of parseEnv on the line of read j: the strip of the
\* terminator, and for a line that is stored the key and the value.
EnvSlicesInRange(j) ==
    LET data == reads[j].data
        line == stripNewline(data)
        ind  == IndexByte(line, COLON)
    IN /\ InRange(data, 0, Len(data) - 1)
       /\ ~RejectedAt(j) => /\ InRange(line, LenAgiPrefix, ind)
                            /\ InRange(line, ind + LenColonSpace, Len(line))

\* The slice expressions of parseResponse on the status line data.
ResponseSlicesInRange(data) ==
    LET line  == stripNewline(data)
        ind   == IndexByte(line, SP)
        eqInd == IndexByte(line, EQ)
        rest  == Slice(line, eqInd + 1, Len(line))
        spInd == IndexByte(rest, SP)
    IN /\ InRange(data, 0, Len(data) - 1)
       /\ ~noStatus(line, ind) =>
            /\ InRange(line, 0, ind)
            /\ (Slice(line, 0, ind) = T200 /\ eqInd = Len(Result200) /\ eqInd < Len(line) - 1) =>
                 /\ InRange(line, eqInd + 1, Len(line))
                 /\ (spInd > 0 /\ spInd < Len(rest) - 1) =>
                      /\ InRange(rest, 0, spInd)
                      /\ InRange(rest, spInd + 1, Len(rest))

\* C37: parseEnv, parseResponse and the buffered path of sendMsg slice the
\* lines they read within their bounds.
C37_Claim ==
    /\ op = "Init" => \A j \in PastBlockTest : EnvSlicesInRange(j)
    /\ op = "GetOption:buffered" => InRange(BufferedLine, 0, Len(BufferedLine) - 1)
    /\ (op = "GetOption:sent" /\ reads[1].err = Nil) => ResponseSlicesInRange(reads[1].data)

\* Init has rejected a line whose colon is its last character.
C37_Witness ==
    /\ op = "Init"
    /\ Len(reads) > 0
    /\ RejectedAt(Len(reads))
    /\ IndexByte(stripNewline(reads[Len(reads)].data), COLON) = Len(reads[Len(reads)].data) - 2
    /\ IndexByte(stripNewline(reads[Len(reads)].data), COLON) >= LenAgiType

\* A buffered line of one byte has been consumed by the buffered path.
C37_WitnessBuffered == op = "GetOption:buffered" /\ Len(BufferedLine) = 1


----------------------------------------------------------------------------
(* Init on every Session value *)

\* The peer's outputs at the start of a session: complete blocks, a block one
\* line short, and blocks with a defect line.
ReinitStreams ==
    {Flatten(EnvLines(n)) \o <<NL>> : n \in {envMin - 1, envMin}}
    \cup DefectStreams(envMin)

\* The Env field of a Session made by New, and of one made by new(Session)
\* or a composite literal, as the standalone example makes it.
SessionEnvs == {NewEnv, NilEnv}

InitReinit ==
    /\ rbuf = <<>>
    /\ wire \in ReinitStreams
    /\ werr = Nil
    /\ out = <<>>
    /\ r = EmptyReply
    /\ err = Nil
    /\ op = "none"
    /\ reads = <<>>
    /\ Env \in SessionEnvs
    /\ cmd = <<>>
    /\ trace = <<>>
    /\ hist = NoHist
    /\ other = NoSession
    /\ peer = NoPeer
    /\ srv = NoServer

\* A call of a.Init(rw) on the Session as it is, rw being the reader the
\* Session already reads from: it returns, or the assignment to an entry of
\* the nil map panics and the process ends.
InitAny ==
    /\ op # "Init:panic"
    /\ \E x \in parseEnv(rbuf, wire, Env) :
        /\ Env' = x.Env
        /\ err' = x.err
        /\ rbuf' = x.rbuf
        /\ wire' = x.wire
        /\ reads' = x.reads
        /\ trace' = readCalls(Len(x.reads))
        /\ op' = IF x.panic THEN "Init:panic" ELSE "Init"
    /\ r' = EmptyReply
    /\ out' = <<>>
    /\ cmd' = <<>>
    /\ UNCHANGED <<werr, hist, other, peer, srv>>

NextReinit == InitAny

SpecReinit == InitReinit /\ [][NextReinit]_vars

(* C38 *)

\* C38: Init returns on every Session value; no call of Init ends in a panic.
C38_Claim == op # "Init:panic"

\* The same for the first call of Init on a Session made by New.
C38_FirstCallOfNew ==
    [][(op = "none" /\ Env = NewEnv) => op' # "Init:panic"]_vars


----------------------------------------------------------------------------
(* The wrappers that format with "%v" between double quotes *)

\* String arguments handed to the wrappers: a plain word and a value with
\* two embedded double quotes.
Values ==
    {<<"v">>,
     <<"a", "\"", " ", "\"", "b">>}

\* fmt.Sprintf("SET VARIABLE %q \"%v\"", variable, value) for a string value.
setVariableCmd(variable, value) ==
    <<"S", "E", "T", " ", "V", "A", "R", "I", "A", "B", "L", "E", " ">>
    \o Quote(variable) \o <<SP>> \o DQUOTE \o value \o DQUOTE

\* fmt.Sprintf("VERBOSE \"%v\"", msg) for a string msg and no level.
verboseCmd(msg) ==
    <<"V", "E", "R", "B", "O", "S", "E", " ">> \o DQUOTE \o msg \o DQUOTE

\* Noop with one string parameter: cmd is ` "<par>"` after the loop, and the
\* command is fmt.Sprintf("NOOP %s", cmd).
noopCmd(par) ==
    <<"N", "O", "O", "P", " ">> \o <<SP>> \o DQUOTE \o par \o DQUOTE

\* The path sendMsg took, as the call of SetVariable records it.
setVariableOp(o) ==
    CASE o = "sendMsg:buffered" -> "SetVariable:buffered"
      [] o = "sendMsg:write" -> "SetVariable:write"
      [] o = "sendMsg:flush" -> "SetVariable:flush"
      [] o = "sendMsg:sent" -> "SetVariable:sent"

\* The path sendMsg took, as the call of Verbose records it.
verboseOp(o) ==
    CASE o = "sendMsg:buffered" -> "Verbose:buffered"
      [] o = "sendMsg:write" -> "Verbose:write"
      [] o = "sendMsg:flush" -> "Verbose:flush"
      [] o = "sendMsg:sent" -> "Verbose:sent"

\* The path sendMsg took, as the call of Noop records it.
noopOp(o) ==
    CASE o = "sendMsg:buffered" -> "Noop:buffered"
      [] o = "sendMsg:write" -> "Noop:write"
      [] o = "sendMsg:flush" -> "Noop:flush"
      [] o = "sendMsg:sent" -> "Noop:sent"

\* A call of a.SetVariable(variable, value) that returns.
SetVariable(variable, value) ==
    /\ op # "none"
    /\ \E x \in sendMsg(setVariableCmd(variable, value), rbuf, wire, werr) :
        /\ r' = x.r
        /\ err' = x.err
        /\ rbuf' = x.rbuf
        /\ wire' = x.wire
        /\ werr' = x.werr
        /\ out' = x.out
        /\ reads' = x.reads
        /\ trace' = x.trace
        /\ op' = setVariableOp(x.op)
    /\ cmd' = setVariableCmd(variable, value)
    /\ UNCHANGED <<Env, hist, other, peer, srv>>

\* A call of a.Verbose(msg) that returns.
Verbose(msg) ==
    /\ op # "none"
    /\ \E x \in sendMsg(verboseCmd(msg), rbuf, wire, werr) :
        /\ r' = x.r
        /\ err' = x.err
        /\ rbuf' = x.rbuf
        /\ wire' = x.wire
        /\ werr' = x.werr
        /\ out' = x.out
        /\ reads' = x.reads
        /\ trace' = x.trace
        /\ op' = verboseOp(x.op)
    /\ cmd' = verboseCmd(msg)
    /\ UNCHANGED <<Env, hist, other, peer, srv>>

\* A call of a.Noop(par) that returns.
Noop(par) ==
    /\ op # "none"
    /\ \E x \in sendMsg(noopCmd(par), rbuf, wire, werr) :
        /\ r' = x.r
        /\ err' = x.err
        /\ rbuf' = x.rbuf
        /\ wire' = x.wire
        /\ werr' = x.werr
        /\ out' = x.out
        /\ reads' = x.reads
        /\ trace' = x.trace
        /\ op' = noopOp(x.op)
    /\ cmd' = noopCmd(par)
    /\ UNCHANGED <<Env, hist, other, peer, srv>>

NextQuote ==
    \/ \E n \in VarNames, v \in Values : SetVariable(n, v)
    \/ \E v \in Values : Verbose(v)
    \/ \E v \in Values : Noop(v)

SpecQuote == InitCmd /\ [][NextQuote]_vars

(* C39 *)

\* The positions of the double quotes of t that no backslash escapes: those
\* with an even number of backslashes right before them.
OpenQuotes(t) ==
    {i \in 1..Len(t) :
        /\ t[i] = "\""
        /\ LET run == {j \in 0..(i - 1) : \A m \in (i - j)..(i - 1) : t[m] = "\\"}
               n   == CHOOSE j \in run : \A k \in run : k <= j
           IN n % 2 = 0}

\* t is one double-quoted token: its only unescaped double quotes are its
\* first and its last character.
OneQuotedToken(t) == Len(t) >= 2 /\ OpenQuotes(t) = {1, Len(t)}

\* The text of the command line c after its first n characters.
ArgumentText(c, n) == Slice(c, n, Len(c))

\* The command line of SetVariable up to the value: the command, the quoted
\* name and a space.
SetVariableHead(n) ==
    <<"S", "E", "T", " ", "V", "A", "R", "I", "A", "B", "L", "E", " ">> \o Quote(n) \o <<SP>>

\* The last call was SetVariable, Verbose without level, or Noop.
SetVariableCalled == op \in {setVariableOp(o) : o \in {"sendMsg:buffered", "sendMsg:write", "sendMsg:flush", "sendMsg:sent"}}

VerboseCalled == op \in {verboseOp(o) : o \in {"sendMsg:buffered", "sendMsg:write", "sendMsg:flush", "sendMsg:sent"}}

NoopCalled == op \in {noopOp(o) : o \in {"sendMsg:buffered", "sendMsg:write", "sendMsg:flush", "sendMsg:sent"}}

\* C39: the command line of SetVariable carries the value, and the command
\* lines of Verbose and Noop carry their argument, as one double-quoted token
\* whose embedded double quotes are escaped.
C39_Claim ==
    /\ SetVariableCalled =>
         \E n \in VarNames :
            /\ HasPrefix(cmd, SetVariableHead(n))
            /\ OneQuotedToken(ArgumentText(cmd, Len(SetVariableHead(n))))
    /\ VerboseCalled => OneQuotedToken(ArgumentText(cmd, 8))
    /\ NoopCalled => OneQuotedToken(ArgumentText(cmd, 6))


----------------------------------------------------------------------------
(* A call that waits for the peer *)

\* Lines the peer sends, and calls the caller makes, in a session that is
\* followed to the return of its calls.
MaxLive == 2

\* Lines the peer sends while a session is followed to the return of its
\* calls.
LiveLines ==
    {<<"2", "0", "0", " ", "r", "e", "s", "u", "l", "t", "=", "0">>,
     <<"5", "2", "0", "-", "I", "n", "v", "a", "l", "i", "d", " ", "x">>,
     <<"5", "2", "0", " ", "x">>,
     <<"H", "A", "N", "G", "U", "P">>}

\* The peer at the start: the stream is open and it has sent nothing.
LivePeer ==
    [followed |-> TRUE,
     closed |-> FALSE,   \* the peer has closed the stream
     sent |-> 0,         \* the number of lines the peer has sent
     cur |-> 0]          \* the number of calls of sendMsg begun

InitLive ==
    /\ rbuf = <<>>
    /\ wire = <<>>
    /\ werr = Nil
    /\ out = <<>>
    /\ r = EmptyReply
    /\ err = Nil
    /\ op = "none"
    /\ reads = <<>>
    /\ Env = NewEnv
    /\ cmd = <<>>
    /\ trace = <<>>
    /\ hist = NoHist
    /\ other = NoSession
    /\ peer = LivePeer
    /\ srv = NoServer

\* a.buf.ReadBytes(10) returns: the bytes received hold a newline, or the
\* stream is closed and the read ends with an error.
canRead(rb, w, closed) == closed \/ IndexByte(rb \o w, NL) >= 0

\* The beginning of a call of a.sendMsg(s): it returns at once with a
\* buffered line or a failed write, or it has written and flushed the
\* command and is in parseResponse.
LiveBegin(s) ==
    /\ op \notin {"sendMsg:await", "sendMsg:doc"}
    /\ peer.cur < MaxLive
    /\ \/ \E x \in sendMsg(s, rbuf, wire, werr) :
             /\ x.op # "sendMsg:sent"
             /\ r' = x.r
             /\ err' = x.err
             /\ rbuf' = x.rbuf
             /\ wire' = x.wire
             /\ werr' = x.werr
             /\ out' = x.out
             /\ reads' = x.reads
             /\ trace' = x.trace
             /\ op' = x.op
       \/ /\ ~hasBuffered(rbuf)
          /\ werr = Nil
          /\ \E f \in Flush(wireLine(s)) :
                /\ ~flushFailed(f)
                /\ out' = f.out
                /\ werr' = f.err
          /\ r' = EmptyReply
          /\ err' = Nil
          /\ reads' = <<>>
          /\ trace' = <<"Buffered", "WriteString", "Flush">>
          /\ op' = "sendMsg:await"
          /\ UNCHANGED <<rbuf, wire>>
    /\ peer' = [peer EXCEPT !.cur = @ + 1]
    /\ cmd' = s
    /\ UNCHANGED <<Env, hist, other, srv>>

\* The first ReadBytes of parseResponse returns and the status line is
\* classified: parseResponse returns, or for the status 520-Invalid it
\* calls ReadBytes once more.
LiveStatus ==
    /\ op = "sendMsg:await"
    /\ canRead(rbuf, wire, peer.closed)
    /\ \E o \in ReadBytes(rbuf, wire) :
          /\ r' = classify(o).r
          /\ err' = classify(o).err
          /\ rbuf' = o.rbuf
          /\ wire' = o.wire
          /\ reads' = <<[data |-> o.data, err |-> o.err]>>
          /\ op' = IF classify(o).doc THEN "sendMsg:doc" ELSE "sendMsg:sent"
    /\ trace' = trace \o readCalls(1)
    /\ UNCHANGED <<werr, out, cmd, Env, hist, other, peer, srv>>

\* The second ReadBytes of parseResponse returns, and parseResponse with it.
LiveDoc ==
    /\ op = "sendMsg:doc"
    /\ canRead(rbuf, wire, peer.closed)
    /\ \E d \in ReadBytes(rbuf, wire) :
          /\ rbuf' = d.rbuf
          /\ wire' = d.wire
          /\ reads' = Append(reads, [data |-> d.data, err |-> d.err])
    /\ op' = "sendMsg:sent"
    /\ trace' = trace \o readCalls(1)
    /\ UNCHANGED <<r, err, werr, out, cmd, Env, hist, other, peer, srv>>

\* The peer sends a line.
PeerLine(l) ==
    /\ ~peer.closed
    /\ peer.sent < MaxLive
    /\ wire' = wire \o l \o <<NL>>
    /\ peer' = [peer EXCEPT !.sent = @ + 1]
    /\ UNCHANGED <<rbuf, werr, out, r, err, op, reads, Env, cmd, trace, hist, other, srv>>

\* The peer closes the stream.
PeerClose ==
    /\ ~peer.closed
    /\ peer' = [peer EXCEPT !.closed = TRUE]
    /\ UNCHANGED <<rbuf, wire, werr, out, r, err, op, reads, Env, cmd, trace, hist, other, srv>>

NextLive ==
    \/ \E s \in Cmds : LiveBegin(s)
    \/ LiveStatus
    \/ LiveDoc
    \/ \E l \in LiveLines : PeerLine(l)
    \/ PeerClose

\* A ReadBytes that can return does return: the runtime resumes a goroutine
\* whose read is ready.  Nothing is assumed of the peer or of the caller.
SpecLive ==
    InitLive /\ [][NextLive]_vars /\ WF_vars(LiveStatus) /\ WF_vars(LiveDoc)

(* C31 *)

\* A call has written its command and has not returned.
Awaiting == op \in {"sendMsg:await", "sendMsg:doc"}

\* The bytes received and not consumed hold a complete line.
LineThere == IndexByte(rbuf \o wire, NL) >= 0

\* The bytes received and not consumed hold a complete line and, when that
\* line has the status 520-Invalid, the complete line after it.
LinesThere ==
    /\ LineThere
    /\ LET l == FirstLine(rbuf \o wire)
       IN (IndexByte(l, SP) > 0 /\ ~SpaceLast(l) /\ TokenOf(l) = T520Invalid)
             => IndexByte(AfterLine(rbuf \o wire), NL) >= 0

\* C31 as stated: a call that waits returns once one complete line is there
\* or the stream is closed.
C31_Original == (Awaiting /\ (LineThere \/ peer.closed)) ~> ~Awaiting

\* C31: a call that waits returns once the stream is closed or the status
\* line is there, with the line after it when the status is 520-Invalid; and
\* a call that waits returns only when a line is there or the stream is
\* closed.
C31_Returns ==
    /\ (Awaiting /\ (LinesThere \/ peer.closed)) ~> ~Awaiting
    /\ [][(Awaiting /\ ~Awaiting') => (LineThere \/ peer.closed)]_vars

\* A call that waited has returned the 520 error after the peer, with the
\* stream open, sent the line after the 520-Invalid status.
C31_Witness ==
    /\ op = "sendMsg:sent"
    /\ peer.followed
    /\ ~peer.closed
    /\ Len(reads) = 2
    /\ reads[2].err = Nil
    /\ err = Err520Response


----------------------------------------------------------------------------
(* The FastAGI server of the example *)

\* Acceptor goroutines of the pool (the flag pool; 4 by default).
Listeners == 2

\* Connections the clients make while the server is followed.
MaxConns == 2

Acceptors == 1..Listeners

\* The server when main has started its acceptors and waits for the signal.
NewServer ==
    [made |-> TRUE,
     shutdown |-> 0,                           \* var shutdown int32
     wg |-> 0,                                 \* the counter of the WaitGroup
     main |-> "signal",                        \* where main is: signal, store, wait, waited, exited
     acc |-> [i \in Acceptors |-> "check"],    \* where each acceptor is: check, accept, add, done
     conns |-> 0,                              \* connections accepted
     running |-> 0]                            \* handlers started and not finished

InitServer ==
    /\ rbuf = <<>>
    /\ wire = <<>>
    /\ werr = Nil
    /\ out = <<>>
    /\ r = EmptyReply
    /\ err = Nil
    /\ op = "none"
    /\ reads = <<>>
    /\ Env = NewEnv
    /\ cmd = <<>>
    /\ trace = <<>>
    /\ hist = NoHist
    /\ other = NoSession
    /\ peer = NoPeer
    /\ srv = NewServer

\* The process runs until main returns.
Running == srv.made /\ srv.main # "exited"

\* for atomic.LoadInt32(&shutdown) == 0: acceptor i tests the flag.
AcceptorCheck(i) ==
    /\ Running
    /\ srv.acc[i] = "check"
    /\ srv' = [srv EXCEPT !.acc[i] = IF srv.shutdown = 0 THEN "accept" ELSE "done"]
    /\ UNCHANGED <<rbuf, wire, werr, out, r, err, op, reads, Env, cmd, trace, hist, other, peer>>

\* conn, err := listener.Accept(): a client connects and acceptor i, which
\* was blocked in Accept, gets the connection.
AcceptorAccept(i) ==
    /\ Running
    /\ srv.acc[i] = "accept"
    /\ srv.conns < MaxConns
    /\ srv' = [srv EXCEPT !.acc[i] = "add", !.conns = @ + 1]
    /\ UNCHANGED <<rbuf, wire, werr, out, r, err, op, reads, Env, cmd, trace, hist, other, peer>>

\* wg.Add(1); go agiConnHandle(conn, wg): acceptor i starts a handler and
\* goes back to the test of the flag.
AcceptorAdd(i) ==
    /\ Running
    /\ srv.acc[i] = "add"
    /\ srv' = [srv EXCEPT !.acc[i] = "check", !.wg = @ + 1, !.running = @ + 1]
    /\ UNCHANGED <<rbuf, wire, werr, out, r, err, op, reads, Env, cmd, trace, hist, other, peer>>

\* agiConnHandle returns (its session has ended or panicked): the deferred
\* function closes the connection and calls wg.Done().
HandlerDone ==
    /\ Running
    /\ srv.running > 0
    /\ srv' = [srv EXCEPT !.wg = @ - 1, !.running = @ - 1]
    /\ UNCHANGED <<rbuf, wire, werr, out, r, err, op, reads, Env, cmd, trace, hist, other, peer>>

\* signal := <-c: the interrupt signal is received.
MainSignal ==
    /\ srv.made
    /\ srv.main = "signal"
    /\ srv' = [srv EXCEPT !.main = "store"]
    /\ UNCHANGED <<rbuf, wire, werr, out, r, err, op, reads, Env, cmd, trace, hist, other, peer>>

\* atomic.StoreInt32(&shutdown, 1).
MainStore ==
    /\ srv.made
    /\ srv.main = "store"
    /\ srv' = [srv EXCEPT !.main = "wait", !.shutdown = 1]
    /\ UNCHANGED <<rbuf, wire, werr, out, r, err, op, reads, Env, cmd, trace, hist, other, peer>>

\* wg.Wait() returns: the counter is zero.
MainWait ==
    /\ srv.made
    /\ srv.main = "wait"
    /\ srv.wg = 0
    /\ srv' = [srv EXCEPT !.main = "waited"]
    /\ UNCHANGED <<rbuf, wire, werr, out, r, err, op, reads, Env, cmd, trace, hist, other, peer>>

\* main returns: the listener is closed and the process exits with every
\* goroutine it still has.
MainReturn ==
    /\ srv.made
    /\ srv.main = "waited"
    /\ srv' = [srv EXCEPT !.main = "exited"]
    /\ UNCHANGED <<rbuf, wire, werr, out, r, err, op, reads, Env, cmd, trace, hist, other, peer>>

NextServer ==
    \/ \E i \in Acceptors : AcceptorCheck(i)
    \/ \E i \in Acceptors : AcceptorAccept(i)
    \/ \E i \in Acceptors : AcceptorAdd(i)
    \/ HandlerDone
    \/ MainSignal
    \/ MainStore
    \/ MainWait
    \/ MainReturn

SpecServer == InitServer /\ [][NextServer]_vars

(* C40 *)

\* wg.Wait() has returned.
WaitReturned == srv.main \in {"waited", "exited"}

\* C40: after the signal main returns only when every handler that was ever
\* started has finished: no handler is started once wg.Wait has returned,
\* and none is running when the process exits.
C40_Claim ==
    /\ [][WaitReturned => srv'.wg <= srv.wg]_vars
    /\ [](srv.main = "exited" => srv.running = 0)

\* The same up to the return of wg.Wait: when it returns, no handler that
\* was started before is running.
C40_AtWait == [][(srv.main = "wait" /\ srv'.main = "waited") => srv.running = 0]_vars

====
